---- MODULE Spec2Model ----
(***************************************************************************)
(* A model of the /report wizard of reportbot (src/reportbot.py, and its   *)
(* earlier variant src/bot.py): the access check, the period resolver, the *)
(* custom-date parser and the conversation handlers registered in main().  *)
(*                                                                         *)
(* Text is modelled as a sequence of one-character strings, so that        *)
(* str.split, str.strip, str.upper, strftime and strptime are computed and *)
(* not assumed.  The Ukrainian button labels of the source are written in  *)
(* Latin transliteration (TLA+ strings are ASCII); each definition names   *)
(* the label it stands for.                                                *)
(***************************************************************************)
EXTENDS Integers, Sequences, FiniteSets, TLC

VARIABLES
    conversations,  \* ConversationHandler's map: <<chat_id, user_id>> -> state
    user_states,    \* the global dict user_states: str(chat_id) -> parameter dict
    received,       \* history: per conversation key, the steps received in the current run
    handled,        \* history: the update dispatched by the last step and what its handler did
    members,        \* the (chat, user) pairs that talk to the bot in this run of the bot
    call            \* the argument and result of a function applied on its own

vars == <<conversations, user_states, received, handled, members, call>>

(***************************************************************************)
(* Text                                                                    *)
(***************************************************************************)

\* The no-break space U+00A0 ("\xa0" in the source), written "~" here.
NBSP == "~"

\* The characters str.strip() removes that occur in the inputs of the model.
Whitespace == {" ", "\t", "\n", NBSP}

RECURSIVE LStrip(_)
LStrip(s) == IF s # <<>> /\ Head(s) \in Whitespace THEN LStrip(Tail(s)) ELSE s

RECURSIVE RStrip(_)
RStrip(s) ==
    IF s # <<>> /\ s[Len(s)] \in Whitespace THEN RStrip(SubSeq(s, 1, Len(s) - 1)) ELSE s

\* str.strip()
Strip(s) == RStrip(LStrip(s))

\* str.split(sep) for a one-character separator: always at least one token.
RECURSIVE Split(_, _)
Split(s, sep) ==
    IF s = <<>> THEN << <<>> >>
    ELSE IF Head(s) = sep THEN << <<>> >> \o Split(Tail(s), sep)
    ELSE LET r == Split(Tail(s), sep) IN << <<Head(s)>> \o Head(r) >> \o Tail(r)

\* str.upper() on the letters that occur in the permission cells of the model.
UpperChar(c) ==
    CASE c = "r" -> "R" [] c = "e" -> "E" [] c = "p" -> "P" [] c = "o" -> "O"
      [] c = "t" -> "T" [] c = "a" -> "A" [] c = "d" -> "D" [] c = "m" -> "M"
      [] c = "i" -> "I" [] c = "n" -> "N" [] OTHER -> c

Upper(s) == [i \in 1..Len(s) |-> UpperChar(s[i])]

DigitChars == <<"0", "1", "2", "3", "4", "5", "6", "7", "8", "9">>

Digit(n) == DigitChars[n + 1]

IsDigit(c) == \E n \in 0..9 : DigitChars[n + 1] = c

DigitValue(c) == CHOOSE n \in 0..9 : DigitChars[n + 1] = c

RECURSIVE NatStr(_)
NatStr(n) == IF n < 10 THEN <<Digit(n)>> ELSE NatStr(n \div 10) \o <<Digit(n % 10)>>

\* str(chat_id): decimal digits, a leading "-" for a negative id (a group chat).
Str(n) == IF n < 0 THEN <<"-">> \o NatStr(0 - n) ELSE NatStr(n)

(***************************************************************************)
(* Calendar: datetime.date as its proleptic Gregorian ordinal              *)
(***************************************************************************)

IsLeap(y) == y % 4 = 0 /\ (y % 100 # 0 \/ y % 400 = 0)

DaysInMonth(y, m) ==
    IF m = 2 THEN (IF IsLeap(y) THEN 29 ELSE 28)
    ELSE IF m \in {4, 6, 9, 11} THEN 30 ELSE 31

DaysBeforeYear(y) ==
    (y - 1) * 365 + ((y - 1) \div 4) - ((y - 1) \div 100) + ((y - 1) \div 400)

RECURSIVE DaysBeforeMonth(_, _)
DaysBeforeMonth(y, m) ==
    IF m = 1 THEN 0 ELSE DaysBeforeMonth(y, m - 1) + DaysInMonth(y, m - 1)

\* date(y, m, d).toordinal()
Ymd2Ord(y, m, d) == DaysBeforeYear(y) + DaysBeforeMonth(y, m) + d

\* date.fromordinal(n) as a record of year, month, day.
Ord2Ymd(n) ==
    LET n0   == n - 1
        n400 == n0 \div 146097
        r400 == n0 % 146097
        n100 == r400 \div 36524
        r100 == r400 % 36524
        n4   == r100 \div 1461
        r4   == r100 % 1461
        n1   == r4 \div 365
        r1   == r4 % 365
        y    == n400 * 400 + 1 + n100 * 100 + n4 * 4 + n1
    IN  IF n1 = 4 \/ n100 = 4
        THEN [year |-> y - 1, month |-> 12, day |-> 31]
        ELSE LET m == CHOOSE mm \in 1..12 :
                          /\ DaysBeforeMonth(y, mm) <= r1
                          /\ r1 < DaysBeforeMonth(y, mm) + DaysInMonth(y, mm)
             IN  [year |-> y, month |-> m, day |-> r1 - DaysBeforeMonth(y, m) + 1]

\* date.weekday(): Monday is 0, Sunday is 6.
Weekday(n) == (n + 6) % 7

\* date.replace(day=d)
ReplaceDay(n, d) == Ymd2Ord(Ord2Ymd(n).year, Ord2Ymd(n).month, d)

Pad2(n) == <<Digit(n \div 10), Digit(n % 10)>>

Pad4(n) ==
    <<Digit(n \div 1000), Digit((n \div 100) % 10), Digit((n \div 10) % 10), Digit(n % 10)>>

\* date.strftime("%d.%m.%Y")
StrfDMY(n) ==
    LET d == Ord2Ymd(n) IN Pad2(d.day) \o <<".">> \o Pad2(d.month) \o <<".">> \o Pad4(d.year)

\* What strptime's %d and %m accept: one digit, or two digits (a leading zero or
\* a leading space for %d among them), within 1..hi; 0 when tok is not accepted.
Field2(tok, hi) ==
    IF Len(tok) = 1 /\ IsDigit(tok[1]) /\ DigitValue(tok[1]) >= 1
    THEN DigitValue(tok[1])
    ELSE IF Len(tok) = 2 /\ tok[1] = " " /\ IsDigit(tok[2]) /\ DigitValue(tok[2]) >= 1 /\ hi = 31
    THEN DigitValue(tok[2])
    ELSE IF Len(tok) = 2 /\ IsDigit(tok[1]) /\ IsDigit(tok[2])
            /\ DigitValue(tok[1]) * 10 + DigitValue(tok[2]) \in 1..hi
    THEN DigitValue(tok[1]) * 10 + DigitValue(tok[2])
    ELSE 0

\* datetime.strptime(s, "%d.%m.%Y").date(): the ordinal, or 0 for ValueError.
StrpDMY(s) ==
    LET parts == Split(s, ".") IN
    IF Len(parts) # 3 THEN 0
    ELSE LET d  == Field2(parts[1], 31)
             m  == Field2(parts[2], 12)
             yt == parts[3]
             y  == IF Len(yt) = 4 /\ \A i \in 1..4 : IsDigit(yt[i])
                   THEN DigitValue(yt[1]) * 1000 + DigitValue(yt[2]) * 100
                        + DigitValue(yt[3]) * 10 + DigitValue(yt[4])
                   ELSE 0
         IN  IF d = 0 \/ m = 0 \/ y = 0 THEN 0
             ELSE IF d > DaysInMonth(y, m) THEN 0
             ELSE Ymd2Ord(y, m, d)

(***************************************************************************)
(* Period resolver                                                         *)
(***************************************************************************)

\* The labels of the period buttons (choose_view_callback's keyboard).
PERIOD_TODAY == "Sohodni"                 \* "Сьогодні"
PERIOD_YESTERDAY == "Vchora"              \* "Вчора"
PERIOD_LAST_WEEK == "Mynulyi tyzhden"     \* "Минулий тиждень"
PERIOD_LAST_MONTH == "Mynulyi misiats"    \* "Минулий місяць"
PERIOD_CUSTOM == "Z - PO"                 \* "З - ПО"

NamedPeriods == {PERIOD_TODAY, PERIOD_YESTERDAY, PERIOD_LAST_WEEK, PERIOD_LAST_MONTH}

\* The first day of "last week": today - timedelta(days=today.weekday() + 7).
LastWeekStart_Off(today) == today - (Weekday(today) + 6)

LastWeekStart(today) == today - (Weekday(today) + 7)

\* The else branch, were it to fall back to yesterday.
OtherPeriod_Yesterday(today) == [start |-> today - 1, end |-> today - 1]

\* The else branch of compute_standard_period: start = end = today.
OtherPeriod(today) == [start |-> today, end |-> today]

\* The last-month branch, were it to go back thirty days instead of to the day
\* before the first of this month.
LastMonthRange_ThirtyDays(today) ==
    LET last_day_last_month == today - 30
    IN  [start |-> ReplaceDay(last_day_last_month, 1), end |-> last_day_last_month]

\* The last-month branch of compute_standard_period.
LastMonthRange(today) ==
    LET first_day_this_month == ReplaceDay(today, 1)
        last_day_last_month  == first_day_this_month - 1
    IN  [start |-> ReplaceDay(last_day_last_month, 1), end |-> last_day_last_month]

\* compute_standard_period before strftime: the start and end dates; today is
\* the value of datetime.date.today() read by the call.
StandardPeriodDates(period, today) ==
    IF period = PERIOD_TODAY THEN [start |-> today, end |-> today]
    ELSE IF period = PERIOD_YESTERDAY THEN [start |-> today - 1, end |-> today - 1]
    ELSE IF period = PERIOD_LAST_WEEK
    THEN [start |-> LastWeekStart(today), end |-> LastWeekStart(today) + 6]
    ELSE IF period = PERIOD_LAST_MONTH THEN LastMonthRange(today)
    ELSE OtherPeriod(today)

compute_standard_period(period, today) ==
    LET r == StandardPeriodDates(period, today) IN
    [start |-> StrfDMY(r.start), end |-> StrfDMY(r.end)]

(***************************************************************************)
(* Access check                                                            *)
(***************************************************************************)

\* The permission is_user_allowed looks for in column G of the USERS sheet.
REPORT == <<"R", "E", "P", "O", "R", "T">>

\* What reading the USERS sheet gives: get_spreadsheet() raises ("unreachable"),
\* ss.worksheet("USERS") raises ("no_sheet"), or get_all_values() returns rows
\* (the first one the header), each row a sequence of cells.
SheetRead(status, rows) == [status |-> status, data |-> rows]

\* One pass of the loop body of is_user_allowed over row: "match" (return True),
\* "next" (the row does not match) or "raise" (IndexError on row[2] or row[6]).
UsersRow(row, chat_id) ==
    IF Len(row) < 3 THEN "raise"
    ELSE LET user_id == IF row[3] # <<>> THEN Strip(row[3]) ELSE <<>> IN
         IF Len(row) < 7 THEN "raise"
         ELSE LET permission == IF row[7] # <<>> THEN Upper(Strip(row[7])) ELSE <<>> IN
              IF user_id = Str(chat_id) /\ permission = REPORT THEN "match" ELSE "next"

\* for row in data[1:]: the rows from index i on, in order, stopping at the
\* first match or the first exception; "done" when the loop runs out of rows.
RECURSIVE UsersLoop(_, _, _)
UsersLoop(data, i, chat_id) ==
    IF i > Len(data) THEN "done"
    ELSE LET r == UsersRow(data[i], chat_id) IN
         IF r = "next" THEN UsersLoop(data, i + 1, chat_id) ELSE r

\* The try block of is_user_allowed.
UsersLookup(chat_id, sheet) ==
    IF sheet.status # "ok" THEN "raise" ELSE UsersLoop(sheet.data, 2, chat_id)

\* is_user_allowed with its except clause returning True.
is_user_allowed_FailOpen(chat_id, sheet) ==
    [value |-> UsersLookup(chat_id, sheet) \in {"match", "raise"}, raised |-> FALSE]

\* is_user_allowed(chat_id): value is what it returns, raised whether an
\* exception leaves it (except Exception catches whatever the try block raises).
is_user_allowed(chat_id, sheet) ==
    [value |-> UsersLookup(chat_id, sheet) = "match", raised |-> FALSE]

(***************************************************************************)
(* Session store                                                           *)
(***************************************************************************)

\* A Python dict as a function on the set of its keys.
EmptyDict == [k \in {} |-> 0]

Put(d, k, v) == [x \in DOMAIN d \cup {k} |-> IF x = k THEN v ELSE d[x]]

\* set_state(chat_id, state), as the new value of user_states.
set_state(us, chat_id, state) == Put(us, Str(chat_id), state)

HasState(us, chat_id) == Str(chat_id) \in DOMAIN us

\* "get_state(chat_id) or {}": the stored dict, or a new empty one.
get_state_or_empty(us, chat_id) ==
    IF HasState(us, chat_id) THEN us[Str(chat_id)] ELSE EmptyDict

(***************************************************************************)
(* Handlers: each one as a function of the store and of its inputs, giving *)
(* the new store (us), the value it returns (ret), whether it raises       *)
(* instead of returning (raised), and the calls of                         *)
(* generate_report_from_params it makes (gen).                             *)
(***************************************************************************)

CHOOSING_LOCATION == 0
CHOOSING_VIEW == 1
CHOOSING_PERIOD == 2
ENTERING_CUSTOM_DATES == 3
\* ConversationHandler.END
END == -1

WizardStates == {CHOOSING_LOCATION, CHOOSING_VIEW, CHOOSING_PERIOD, ENTERING_CUSTOM_DATES}

\* The label of the general-report button.
GENERAL_REPORT == "ZAHALNYI ZVIT"         \* "ЗАГАЛЬНИЙ ЗВІТ"

Returns(us, ret) == [us |-> us, ret |-> ret, raised |-> FALSE, gen |-> <<>>]

\* generate_report_from_params(params, chat_id, context) called last in a
\* handler that then returns END.  outcome is what the call does: "delivered",
\* "generate_raised" (generate_pdf_report raises: a font file, the document
\* build) or "send_raised" (send_document raises); nothing catches either, so
\* the handler raises too and returns nothing.
\* The same, were a failed generation or delivery tried once more.
GeneratesAndEnds_Retries(us, params, chat_id, outcome) ==
    [us |-> us, ret |-> END, raised |-> FALSE,
     gen |-> IF outcome = "delivered"
             THEN << [params |-> params, chat_id |-> chat_id, outcome |-> outcome] >>
             ELSE << [params |-> params, chat_id |-> chat_id, outcome |-> outcome],
                     [params |-> params, chat_id |-> chat_id, outcome |-> "delivered"] >>]

GeneratesAndEnds(us, params, chat_id, outcome) ==
    [us |-> us, ret |-> END, raised |-> outcome # "delivered",
     gen |-> << [params |-> params, chat_id |-> chat_id, outcome |-> outcome] >>]

\* update.effective_user.full_name if it is not empty, else the username.
DisplayName(user) == IF user.full_name # "" THEN user.full_name ELSE user.username

\* report_command without the access check.
report_command_NoGate(us, chat_id, user, sheet) ==
    Returns(set_state(us, chat_id,
                      [stage |-> "choose_location", generated_by |-> DisplayName(user)]),
            CHOOSING_LOCATION)

report_command(us, chat_id, user, sheet) ==
    IF ~is_user_allowed(chat_id, sheet).value
    THEN Returns(us, END)
    ELSE Returns(set_state(us, chat_id,
                           [stage |-> "choose_location", generated_by |-> DisplayName(user)]),
                 CHOOSING_LOCATION)

\* choose_location_callback returning CHOOSING_PERIOD.
choose_location_callback_Skips(us, chat_id, location) ==
    LET state == get_state_or_empty(us, chat_id)
        s1    == Put(state, "location", IF location = GENERAL_REPORT THEN "" ELSE location)
        s2    == Put(s1, "stage", "choose_view")
    IN  Returns(set_state(us, chat_id, s2), CHOOSING_PERIOD)

choose_location_callback(us, chat_id, location) ==
    LET state == get_state_or_empty(us, chat_id)
        s1    == Put(state, "location", IF location = GENERAL_REPORT THEN "" ELSE location)
        s2    == Put(s1, "stage", "choose_view")
    IN  Returns(set_state(us, chat_id, s2), CHOOSING_VIEW)

choose_view_callback(us, chat_id, view_mode) ==
    LET state == get_state_or_empty(us, chat_id)
        s1    == Put(state, "viewMode", view_mode)
        s2    == Put(s1, "stage", "choose_period")
    IN  Returns(set_state(us, chat_id, s2), CHOOSING_PERIOD)

\* today is datetime.date.today() as compute_standard_period reads it.
choose_period_callback(us, chat_id, period, today, outcome) ==
    LET state == get_state_or_empty(us, chat_id)
        s1    == Put(state, "periodType", period)
    IN  IF period = PERIOD_CUSTOM
        THEN LET s2 == Put(s1, "stage", "enter_custom_dates")
             IN  Returns(set_state(us, chat_id, s2), ENTERING_CUSTOM_DATES)
        ELSE LET s2       == Put(s1, "stage", "completed")
                 computed == compute_standard_period(period, today)
                 s3       == Put(s2, "startDate", computed.start)
                 s4       == Put(s3, "endDate", computed.end)
             IN  GeneratesAndEnds(set_state(us, chat_id, s4), s4, chat_id, outcome)

\* "len(parts) not in [1, 2]", accepting three tokens as well.
CustomDatesRejects_UpTo3(parts) == Len(parts) \notin {1, 2, 3}

CustomDatesRejects(parts) == Len(parts) \notin {1, 2}

\* The dates custom_dates stores, with the two tokens swapped.
CustomDatesRange_Swapped(parts) ==
    [startDate |-> IF Len(parts) = 2 THEN Strip(parts[2]) ELSE Strip(parts[1]),
     endDate   |-> Strip(parts[1])]

CustomDatesRange(parts) ==
    [startDate |-> Strip(parts[1]),
     endDate   |-> IF Len(parts) = 2 THEN Strip(parts[2]) ELSE Strip(parts[1])]

custom_dates(us, chat_id, text, outcome) ==
    LET parts == Split(text, "-") IN
    IF CustomDatesRejects(parts)
    THEN Returns(us, ENTERING_CUSTOM_DATES)
    ELSE LET state == get_state_or_empty(us, chat_id)
             s1    == Put(state, "periodType", PERIOD_CUSTOM)
             s2    == Put(s1, "startDate", CustomDatesRange(parts).startDate)
             s3    == Put(s2, "endDate", CustomDatesRange(parts).endDate)
             s4    == Put(s3, "stage", "completed")
         IN  GeneratesAndEnds(set_state(us, chat_id, s4), s4, chat_id, outcome)

\* cancel dropping the chat's record.
cancel_Discards(us, chat_id) ==
    Returns([k \in DOMAIN us \ {Str(chat_id)} |-> us[k]], END)

cancel(us, chat_id) == Returns(us, END)

\* start_command and group_reports_button answer with a message and touch
\* nothing; neither is a handler of the conversation.
start_command(us) == Returns(us, END)

(***************************************************************************)
(* Dispatch: the handlers main() registers (python-telegram-bot).  The     *)
(* dispatcher gives an update to the first handler of the group that       *)
(* accepts it; the ConversationHandler keeps one state per                 *)
(* (chat id, user id), tries the entry points when the key has no state,   *)
(* else the handlers of the key's state and then the fallbacks.            *)
(***************************************************************************)

CMD_REPORT == <<"r", "e", "p", "o", "r", "t">>
CMD_CANCEL == <<"c", "a", "n", "c", "e", "l">>
CMD_START == <<"s", "t", "a", "r", "t">>

\* Filters.command: the text starts with a bot command.
IsCommand(text) == text # <<>> /\ Head(text) = "/"

\* The command of a command message: what follows "/" up to the first blank.
CommandName(text) == Head(Split(Tail(text), " "))

\* CommandHandler(name, ...).check_update
CommandMatches(upd, name) ==
    upd.kind = "message" /\ IsCommand(upd.text) /\ CommandName(upd.text) = name

\* CallbackQueryHandler(..., pattern="^<category>:").check_update; the data of
\* a button is <category>:<value>, and data.split(":", 1) gives the two back.
CallbackMatches(upd, category) == upd.kind = "callback" /\ upd.category = category

\* Filters.text alone: any text message, a command included.
CustomDatesFilter_AnyText(upd) == upd.kind = "message" /\ upd.text # <<>>

\* MessageHandler(Filters.text & ~Filters.command, custom_dates).check_update
CustomDatesFilter(upd) == upd.kind = "message" /\ upd.text # <<>> /\ ~IsCommand(upd.text)

\* states={...}: the handler of state that accepts upd, or "none".
StateHandler(state, upd) ==
    IF state = CHOOSING_LOCATION /\ CallbackMatches(upd, "choose_location")
    THEN "choose_location_callback"
    ELSE IF state = CHOOSING_VIEW /\ CallbackMatches(upd, "choose_view")
    THEN "choose_view_callback"
    ELSE IF state = CHOOSING_PERIOD /\ CallbackMatches(upd, "choose_period")
    THEN "choose_period_callback"
    ELSE IF state = ENTERING_CUSTOM_DATES /\ CustomDatesFilter(upd)
    THEN "custom_dates"
    ELSE "none"

\* entry_points=[CommandHandler("report", report_command)]
EntryPoint(upd) == IF CommandMatches(upd, CMD_REPORT) THEN "report_command" ELSE "none"

\* fallbacks=[CommandHandler("cancel", cancel)]
Fallback(upd) == IF CommandMatches(upd, CMD_CANCEL) THEN "cancel" ELSE "none"

ConvKey(upd) == <<upd.chat, upd.user.id>>

\* ConversationHandler.check_update, were allow_reentry set: the entry points
\* are tried first for a key that has a state too.
ConversationCheck_Reentry(convs, upd) ==
    IF EntryPoint(upd) # "none" THEN EntryPoint(upd)
    ELSE IF ConvKey(upd) \notin DOMAIN convs THEN "none"
    ELSE IF StateHandler(convs[ConvKey(upd)], upd) # "none"
    THEN StateHandler(convs[ConvKey(upd)], upd)
    ELSE Fallback(upd)

\* ConversationHandler.check_update (allow_reentry is left False).
ConversationCheck(convs, upd) ==
    IF ConvKey(upd) \notin DOMAIN convs THEN EntryPoint(upd)
    ELSE IF StateHandler(convs[ConvKey(upd)], upd) # "none"
    THEN StateHandler(convs[ConvKey(upd)], upd)
    ELSE Fallback(upd)

\* The dispatcher's choice in group 0: start_command is added before the
\* ConversationHandler.
Dispatch(convs, upd) ==
    IF CommandMatches(upd, CMD_START) THEN "start_command" ELSE ConversationCheck(convs, upd)

\* ConversationHandler's update of its map with the value a handler returned.
update_state(convs, key, new_state) ==
    IF new_state = END
    THEN [k \in DOMAIN convs \ {key} |-> convs[k]]
    ELSE Put(convs, key, new_state)

(***************************************************************************)
(* Inputs                                                                  *)
(***************************************************************************)

\* Two users; the second has no full name, only a username.
Alice == [id |-> 7, full_name |-> "Alice A", username |-> "alice"]
Bob == [id |-> 8, full_name |-> "", username |-> "bob"]

\* Who talks to the bot: one user in a private chat (chat id = user id), or
\* two users in one group chat (a negative chat id).
PrivateChat == { [chat |-> 7, user |-> Alice] }
SharedChat == { [chat |-> -5, user |-> Alice], [chat |-> -5, user |-> Bob] }

Memberships == {PrivateChat, SharedChat}

KeysOf(ms) == { <<m.chat, m.user.id>> : m \in ms }

\* Rows of the USERS sheet: Telegram id in column C, permission in column G.
UsersRowOf(id_cell, permission_cell) ==
    << <<>>, <<>>, id_cell, <<>>, <<>>, <<>>, permission_cell >>

UsersHeader == UsersRowOf(<<"I", "D">>, <<"R", "O", "L", "E">>)

\* What report_command may read from the USERS sheet in the wizard.
WizardSheets ==
    { SheetRead("ok", << UsersHeader, UsersRowOf(Str(7), REPORT),
                         UsersRowOf(Str(-5), <<" ", "r", "e", "p", "o", "r", "t">>) >>),
      SheetRead("ok", << UsersHeader, UsersRowOf(Str(7), <<"A", "D", "M", "I", "N">>) >>) }

\* The days on which the wizard runs: from Sunday 30.03.2025 on.
WizardDays == 1

WizardToday == { Ymd2Ord(2025, 3, 30) + i : i \in 0..(WizardDays - 1) }

DateText(y, m, d) == StrfDMY(Ymd2Ord(y, m, d))

T_one == DateText(2025, 3, 1)
T_two == DateText(2025, 3, 1) \o <<"-">> \o DateText(2025, 3, 15)
T_three == T_two \o <<"-">> \o DateText(2025, 3, 20)
T_spaced == <<" ">> \o DateText(2025, 3, 1) \o <<" ", "-", " ">> \o DateText(2025, 3, 15) \o <<" ">>
T_open == DateText(2025, 3, 1) \o <<"-">>

\* Free texts a user may send while the wizard waits for dates.
CustomTexts == {T_one, T_two, T_three, T_spaced, T_open}

CommandTexts == { <<"/">> \o c : c \in {CMD_REPORT, CMD_CANCEL, CMD_START} }

Locations == {"IRPIN", GENERAL_REPORT}

ViewModes == {"STYSLYI", "ROZGORNUTYI"}   \* "СТИСЛИЙ", "РОЗГОРНУТИЙ"

PeriodButtons == NamedPeriods \cup {PERIOD_CUSTOM}

Outcomes == {"delivered", "generate_raised", "send_raised"}

AllMembers == UNION Memberships

Member(upd) == [chat |-> upd.chat, user |-> upd.user]

MessageUpdates ==
    { [kind |-> "message", chat |-> m.chat, user |-> m.user, text |-> t] :
        m \in AllMembers, t \in CommandTexts \cup CustomTexts }

CallbackValues(category) ==
    IF category = "choose_location" THEN Locations
    ELSE IF category = "choose_view" THEN ViewModes
    ELSE PeriodButtons

CallbackUpdates ==
    UNION { { [kind |-> "callback", chat |-> m.chat, user |-> m.user,
               category |-> c, value |-> v] : m \in AllMembers, v \in CallbackValues(c) } :
            c \in {"choose_location", "choose_view", "choose_period"} }

Updates == MessageUpdates \cup CallbackUpdates

(***************************************************************************)
(* The wizard                                                              *)
(***************************************************************************)

NoCall == [fn |-> "none"]

NoUpdate ==
    [handler |-> "init", upd |-> [kind |-> "none"], ret |-> END, raised |-> FALSE,
     gen |-> <<>>, allowed |-> TRUE, today |-> 0, received |-> {}]

Init ==
    /\ conversations = EmptyDict
    /\ user_states = EmptyDict
    /\ members \in Memberships
    /\ received = [k \in KeysOf(members) |-> {}]
    /\ handled = NoUpdate
    /\ call = NoCall

\* What a handler adds to the history of its run.
StepOf(h) ==
    IF h = "choose_location_callback" THEN {"location"}
    ELSE IF h = "choose_view_callback" THEN {"view"}
    ELSE IF h = "choose_period_callback" THEN {"period"}
    ELSE {}

\* One dispatched update: handler h ran on upd and did r.  A handler of the
\* conversation that returns moves the key to the state it returned; one that
\* raises leaves the key where it was (what it stored before raising stays).
Handle(upd, h, r, allowed, today) ==
    LET key     == ConvKey(upd)
        newconv == IF r.raised THEN conversations
                   ELSE update_state(conversations, key, r.ret)
        run     == IF h = "report_command" THEN {} ELSE received[key] \cup StepOf(h)
    IN  /\ user_states' = r.us
        /\ conversations' = newconv
        /\ received' = [received EXCEPT ![key] = IF key \in DOMAIN newconv THEN run ELSE {}]
        /\ handled' = [handler |-> h, upd |-> upd, ret |-> r.ret, raised |-> r.raised,
                       gen |-> r.gen, allowed |-> allowed, today |-> today,
                       received |-> run]
        /\ UNCHANGED <<members, call>>

ReportCommand ==
    \E upd \in MessageUpdates, sheet \in WizardSheets :
        /\ Member(upd) \in members
        /\ Dispatch(conversations, upd) = "report_command"
        /\ Handle(upd, "report_command",
                  report_command(user_states, upd.chat, upd.user, sheet),
                  is_user_allowed(upd.chat, sheet).value, 0)

ChooseLocation ==
    \E upd \in CallbackUpdates :
        /\ Member(upd) \in members
        /\ Dispatch(conversations, upd) = "choose_location_callback"
        /\ Handle(upd, "choose_location_callback",
                  choose_location_callback(user_states, upd.chat, upd.value), TRUE, 0)

ChooseView ==
    \E upd \in CallbackUpdates :
        /\ Member(upd) \in members
        /\ Dispatch(conversations, upd) = "choose_view_callback"
        /\ Handle(upd, "choose_view_callback",
                  choose_view_callback(user_states, upd.chat, upd.value), TRUE, 0)

ChoosePeriod ==
    \E upd \in CallbackUpdates, today \in WizardToday, outcome \in Outcomes :
        /\ Member(upd) \in members
        /\ Dispatch(conversations, upd) = "choose_period_callback"
        /\ Handle(upd, "choose_period_callback",
                  choose_period_callback(user_states, upd.chat, upd.value, today, outcome),
                  TRUE, today)

CustomDates ==
    \E upd \in MessageUpdates, outcome \in Outcomes :
        /\ Member(upd) \in members
        /\ Dispatch(conversations, upd) = "custom_dates"
        /\ Handle(upd, "custom_dates",
                  custom_dates(user_states, upd.chat, upd.text, outcome), TRUE, 0)

Cancel ==
    \E upd \in MessageUpdates :
        /\ Member(upd) \in members
        /\ Dispatch(conversations, upd) = "cancel"
        /\ Handle(upd, "cancel", cancel(user_states, upd.chat), TRUE, 0)

\* start_command is no handler of the conversation: what it returns is dropped.
StartCommand ==
        /\ { upd \in MessageUpdates : Member(upd) \in members
                                        /\ Dispatch(conversations, upd) = "start_command" } # {}
        /\ user_states' = start_command(user_states).us
        /\ handled' = [NoUpdate EXCEPT !.handler = "start_command"]
        /\ UNCHANGED <<conversations, received, members, call>>

\* An update no handler accepts: nothing runs.
Unhandled ==
        /\ { upd \in Updates : Member(upd) \in members
                                 /\ Dispatch(conversations, upd) = "none" } # {}
        /\ handled' = [NoUpdate EXCEPT !.handler = "none"]
        /\ UNCHANGED <<conversations, user_states, received, members, call>>

Next ==
    \/ ReportCommand
    \/ ChooseLocation
    \/ ChooseView
    \/ ChoosePeriod
    \/ CustomDates
    \/ Cancel
    \/ StartCommand
    \/ Unhandled

Spec == Init /\ [][Next]_vars

(***************************************************************************)
(* compute_standard_period and its caller, applied on their own            *)
(***************************************************************************)

\* The values of today the resolver is applied to: PeriodDays days from Monday
\* 25.12.2023 on (a turn of the year, a leap February, every weekday).
PeriodDays == 75

PeriodToday == { Ymd2Ord(2023, 12, 25) + i : i \in 0..(PeriodDays - 1) }

\* Labels that are no button of the period keyboard.
FreeLabels == {"Mynuloho roku", "01.03.2025"}

PeriodLabels == PeriodButtons \cup FreeLabels

\* The store choose_period_callback is applied to: the chat is choosing a period.
StoreAtPeriod ==
    set_state(EmptyDict, -5,
              [stage |-> "choose_period", generated_by |-> "bob", location |-> "",
               viewMode |-> "STYSLYI"])

NoResult == [us |-> EmptyDict]

ResolverCalls ==
    { [fn |-> "compute_standard_period", period |-> p, today |-> t, outcome |-> "none",
       done |-> FALSE, result |-> NoResult] : p \in PeriodLabels, t \in PeriodToday }

CallerCalls ==
    { [fn |-> "choose_period_callback", period |-> p, today |-> t, outcome |-> o,
       done |-> FALSE, result |-> NoResult] :
        p \in PeriodLabels, t \in PeriodToday, o \in Outcomes }

WizardAtRest ==
    /\ conversations = EmptyDict
    /\ user_states = EmptyDict
    /\ members = SharedChat
    /\ received = [k \in KeysOf(members) |-> {}]
    /\ handled = NoUpdate

InitPeriod == WizardAtRest /\ call \in ResolverCalls \cup CallerCalls

ResolvePeriod ==
    /\ call.fn = "compute_standard_period" /\ ~call.done
    /\ call' = [call EXCEPT !.done = TRUE,
                            !.result = compute_standard_period(call.period, call.today)]
    /\ UNCHANGED <<conversations, user_states, received, handled, members>>

RoutePeriod ==
    /\ call.fn = "choose_period_callback" /\ ~call.done
    /\ call' = [call EXCEPT !.done = TRUE,
                            !.result = choose_period_callback(StoreAtPeriod, -5, call.period,
                                                              call.today, call.outcome)]
    /\ UNCHANGED <<conversations, user_states, received, handled, members>>

NextPeriod == ResolvePeriod \/ RoutePeriod

SpecPeriod == InitPeriod /\ [][NextPeriod]_vars

(***************************************************************************)
(* is_user_allowed, applied on its own                                     *)
(***************************************************************************)

\* The USERS sheet has at most MaxUsersRows rows under its header.
MaxUsersRows == 2

IdCells == { Str(7), <<" ">> \o Str(7) \o <<" ">>, Str(-5), <<>> }

PermissionCells ==
    { REPORT, <<" ", "r", "e", "p", "o", "r", "t">>, <<"A", "D", "M", "I", "N">>, <<>> }

\* Rows too short to index: one that ends before column C, one before column G.
ShortRows == { << <<>>, <<>> >>, << <<>>, <<>>, Str(7), <<>>, <<>> >> }

AccessRows == { UsersRowOf(i, q) : i \in IdCells, q \in PermissionCells } \cup ShortRows

AccessSheets ==
    { SheetRead("unreachable", <<>>), SheetRead("no_sheet", <<>>), SheetRead("ok", <<>>) }
    \cup { SheetRead("ok", <<UsersHeader>> \o rows) :
             rows \in UNION { [1..n -> AccessRows] : n \in 0..MaxUsersRows } }

AccessCalls ==
    { [fn |-> "is_user_allowed", chat_id |-> c, sheet |-> sh, done |-> FALSE,
       result |-> [value |-> FALSE, raised |-> FALSE]] : c \in {7, -5}, sh \in AccessSheets }

InitAccess == WizardAtRest /\ call \in AccessCalls

CheckAccess ==
    /\ call.fn = "is_user_allowed" /\ ~call.done
    /\ call' = [call EXCEPT !.done = TRUE,
                            !.result = is_user_allowed(call.chat_id, call.sheet)]
    /\ UNCHANGED <<conversations, user_states, received, handled, members>>

NextAccess == CheckAccess

SpecAccess == InitAccess /\ [][NextAccess]_vars

(***************************************************************************)
(* Journal aggregation                                                     *)
(***************************************************************************)

\* Numbers of the journal are decimals of at most two places, held as their
\* count of hundredths (12.5 is 1250); the cells of the model carry no more
\* places, no exponent and no "inf" or "nan".
Hundred == 100

\* str.replace(old, new) for a one-character old; new is a string.
RECURSIVE Replace(_, _, _)
Replace(s, old, new) ==
    IF s = <<>> THEN <<>>
    ELSE (IF Head(s) = old THEN new ELSE <<Head(s)>>) \o Replace(Tail(s), old, new)

RECURSIVE DigitsValue(_)
DigitsValue(s) ==
    IF s = <<>> THEN 0 ELSE DigitsValue(SubSeq(s, 1, Len(s) - 1)) * 10 + DigitValue(s[Len(s)])

AllDigits(s) == \A i \in 1..Len(s) : IsDigit(s[i])

\* float(s): blanks around the number and a sign are accepted, then digits with
\* at most one ".", one digit at least; ok is FALSE for ValueError.
Float(s) ==
    LET t        == Strip(s)
        signed   == t # <<>> /\ Head(t) \in {"+", "-"}
        body     == IF signed THEN Tail(t) ELSE t
        parts    == Split(body, ".")
        int_part == parts[1]
        frac     == IF Len(parts) = 2 THEN parts[2] ELSE <<>>
        valid    == /\ Len(parts) \in {1, 2}
                    /\ AllDigits(int_part) /\ AllDigits(frac)
                    /\ Len(int_part) + Len(frac) >= 1
        frac2    == SubSeq(frac \o <<"0", "0">>, 1, 2)
        mag      == DigitsValue(int_part) * Hundred + DigitsValue(frac2)
    IN  IF ~valid THEN [ok |-> FALSE, value |-> 0]
        ELSE [ok |-> TRUE, value |-> IF signed /\ Head(t) = "-" THEN 0 - mag ELSE mag]

\* datetime.strptime(s, "%Y-%m-%d").date(): the ordinal, or 0 for ValueError.
StrpYMD(s) ==
    LET parts == Split(s, "-") IN
    IF Len(parts) # 3 THEN 0
    ELSE LET yt == parts[1]
             y  == IF Len(yt) = 4 /\ AllDigits(yt) THEN DigitsValue(yt) ELSE 0
             m  == Field2(parts[2], 12)
             d  == Field2(parts[3], 31)
         IN  IF d = 0 \/ m = 0 \/ y = 0 THEN 0
             ELSE IF d > DaysInMonth(y, m) THEN 0
             ELSE Ymd2Ord(y, m, d)

\* The loop over the two formats in process_journal: the row's date, or 0 when
\* row_date stays None (neither format parses row[1], or the row has no
\* column B and row[1] raises inside the inner try).
JournalDate(row) ==
    IF Len(row) < 2 THEN 0
    ELSE LET cell == Strip(row[2]) IN
         IF StrpDMY(cell) # 0 THEN StrpDMY(cell) ELSE StrpYMD(cell)

\* 'cell.replace("\xa0", "").replace(",", ".").strip() if cell else "0"'
NumberText(cell) ==
    IF cell # <<>> THEN Strip(Replace(Replace(cell, NBSP, <<>>), ",", <<".">>)) ELSE <<"0">>

\* weight and sum_val of a row: row[5] and row[9] normalised and given to
\* float(); "raise" for IndexError (a missing column) or ValueError.
JournalNumbers(row) ==
    IF Len(row) < 6 THEN [kind |-> "raise"]
    ELSE LET weight_str == NumberText(row[6]) IN
         IF Len(row) < 10 THEN [kind |-> "raise"]
         ELSE LET sum_str == NumberText(row[10]) IN
              IF ~Float(weight_str).ok \/ ~Float(sum_str).ok THEN [kind |-> "raise"]
              ELSE [kind |-> "add", weight |-> Float(weight_str).value,
                    sum |-> Float(sum_str).value]

\* One pass of the loop body of process_journal over row: "skip" (a continue of
\* a filter), "raise" (an exception, caught by the row's own except clause) or
\* "add" with the material and the numbers to accumulate.
JournalRow(row, operation_type, start_date, end_date, selected_location) ==
    LET row_date == JournalDate(row) IN
    IF row_date = 0 THEN [kind |-> "skip"]
    ELSE IF ~(start_date <= row_date /\ row_date <= end_date) THEN [kind |-> "skip"]
    ELSE IF Len(row) < 5 THEN [kind |-> "raise"]
    ELSE IF Strip(row[5]) # operation_type THEN [kind |-> "skip"]
    ELSE IF selected_location # <<>> /\ Len(row) < 11 THEN [kind |-> "raise"]
    ELSE IF selected_location # <<>> /\ Strip(row[11]) # selected_location
    THEN [kind |-> "skip"]
    ELSE LET n == JournalNumbers(row) IN
         IF n.kind = "raise" THEN n
         ELSE [kind |-> "add", material |-> Strip(row[4]), weight |-> n.weight, sum |-> n.sum]

\* A dict of material -> {"weight", "sum"} as the sequence of its entries in
\* insertion order (the order a Python dict iterates in).
DictKeys(d) == { d[i].key : i \in 1..Len(d) }

DictIndex(d, k) == CHOOSE i \in 1..Len(d) : d[i].key = k

\* 'if material not in result: result[material] = {"weight": 0, "sum": 0}' and
\* the two "+=".
Accumulate(result, material, weight, sum) ==
    LET r0 == IF material \in DictKeys(result) THEN result
              ELSE Append(result, [key |-> material, weight |-> 0, sum |-> 0])
        i  == DictIndex(r0, material)
    IN  [r0 EXCEPT ![i] = [key |-> material, weight |-> r0[i].weight + weight,
                           sum |-> r0[i].sum + sum]]

\* The loop, were an exception in a row to leave it and reach the outer except
\* clause, which returns {}.
RECURSIVE JournalLoop_Aborts(_, _, _, _, _, _, _)
JournalLoop_Aborts(data, i, result, operation_type, start_date, end_date, selected_location) ==
    IF i > Len(data) THEN result
    ELSE LET r == JournalRow(data[i], operation_type, start_date, end_date, selected_location)
         IN  IF r.kind = "raise" THEN <<>>
             ELSE JournalLoop_Aborts(data, i + 1,
                     IF r.kind = "add" THEN Accumulate(result, r.material, r.weight, r.sum)
                     ELSE result,
                     operation_type, start_date, end_date, selected_location)

\* for row in data[1:]: the rows from index i on, in order; a row that skips or
\* raises leaves result as it is and the loop goes on.
RECURSIVE JournalLoop(_, _, _, _, _, _, _)
JournalLoop(data, i, result, operation_type, start_date, end_date, selected_location) ==
    IF i > Len(data) THEN result
    ELSE LET r == JournalRow(data[i], operation_type, start_date, end_date, selected_location)
         IN  JournalLoop(data, i + 1,
                 IF r.kind = "add" THEN Accumulate(result, r.material, r.weight, r.sum)
                 ELSE result,
                 operation_type, start_date, end_date, selected_location)

\* process_journal(operation_type, start_date, end_date, selected_location)
\* reading the JOURNAL sheet: {} when the read raises.
process_journal(operation_type, start_date, end_date, selected_location, sheet) ==
    IF sheet.status # "ok" THEN <<>>
    ELSE JournalLoop(sheet.data, 2, <<>>, operation_type, start_date, end_date,
                     selected_location)

(***************************************************************************)
(* process_journal on its own: one call on a drawn JOURNAL sheet           *)
(***************************************************************************)

\* The operation types of the reports: "КУПІВЛЯ", "ПРОДАЖ", "ВІДВАНТАЖЕННЯ".
OP_BUY == <<"K", "U", "P", "I", "V", "L", "I", "A">>
OP_SELL == <<"P", "R", "O", "D", "A", "Z", "H">>
OP_SHIP == <<"V", "I", "D", "V", "A", "N", "T">>

\* Cells of the sheets of the model.
Copper == <<"C", "u">>
Brass == <<"B", "r">>
Lead == <<"P", "b">>
Irpin == <<"I", "R", "P", "I", "N">>
Kyiv == <<"K", "Y", "I", "V">>

\* A row of the JOURNAL sheet, columns A to K: the date in B, the material in
\* D, the operation in E, the weight in F, the amount in J, the location in K.
JournalRowOf(date, material, operation, weight, sum, location) ==
    << <<>>, date, <<>>, material, operation, weight, <<>>, <<>>, <<>>, sum, location >>

JournalHeader ==
    JournalRowOf(<<"D", "A", "T", "E">>, <<"M", "A", "T">>, <<"O", "P">>, <<"K", "G">>,
                 <<"S", "U", "M">>, <<"L", "O", "C">>)

\* The range the calls ask for: 01.03.2025 to 15.03.2025.
JournalStart == Ymd2Ord(2025, 3, 1)
JournalEnd == Ymd2Ord(2025, 3, 15)

\* The rows the sheets are made of.
RowPlain == JournalRowOf(DateText(2025, 3, 1), Copper, OP_BUY, <<"1", "0">>,
                         <<"1", "0", "0">>, Irpin)
\* An ISO date on the last day of the range, blanks around the cells, a decimal
\* comma and a no-break space between thousands.
RowSpaced == JournalRowOf(<<" ", "2", "0", "2", "5", "-", "0", "3", "-", "1", "5">>,
                          <<" ", "C", "u", " ">>, <<" ">> \o OP_BUY, <<"2", ",", "5">>,
                          <<"1", NBSP, "0", "0", "0", ",", "5", "0">>, Kyiv \o <<" ">>)
RowLate == JournalRowOf(DateText(2025, 3, 16), Copper, OP_BUY, <<"7">>, <<"7", "0">>, Irpin)
RowSell == JournalRowOf(DateText(2025, 3, 1), Brass, OP_SELL, <<"3">>, <<"4", "5">>, Irpin)
RowNoWeight == JournalRowOf(DateText(2025, 3, 2), Brass, OP_BUY, <<>>, <<"4", "0">>, Irpin)
RowBadWeight == JournalRowOf(DateText(2025, 3, 2), Lead, OP_BUY, <<"n", "/", "a">>,
                             <<"2", "0">>, Irpin)
RowBadDate == JournalRowOf(<<"3", "1", ".", "0", "2", ".", "2", "0", "2", "5">>, Copper,
                           OP_BUY, <<"5">>, <<"5", "0">>, Irpin)
\* Rows that end before column E, and before column J.
RowShort == << <<>>, DateText(2025, 3, 2) >>
RowNoSum == SubSeq(RowPlain, 1, 7)

JournalRows ==
    { RowPlain, RowSpaced, RowLate, RowSell, RowNoWeight, RowBadWeight, RowBadDate,
      RowShort, RowNoSum }

MaxJournalRows == 3

JournalSheets ==
    { SheetRead("unreachable", <<>>), SheetRead("no_sheet", <<>>), SheetRead("ok", <<>>) }
    \cup { SheetRead("ok", <<JournalHeader>> \o rows) :
             rows \in UNION { [1..n -> JournalRows] : n \in 0..MaxJournalRows } }

JournalCalls ==
    { [fn |-> "process_journal", operation_type |-> op, start_date |-> JournalStart,
       end_date |-> JournalEnd, selected_location |-> loc, sheet |-> sh,
       done |-> FALSE, result |-> <<>>] :
        op \in {OP_BUY, OP_SELL}, loc \in {<<>>, Irpin}, sh \in JournalSheets }

InitJournal == WizardAtRest /\ call \in JournalCalls

ProcessJournal ==
    /\ call.fn = "process_journal" /\ ~call.done
    /\ call' = [call EXCEPT !.done = TRUE,
                            !.result = process_journal(call.operation_type, call.start_date,
                                                       call.end_date, call.selected_location,
                                                       call.sheet)]
    /\ UNCHANGED <<conversations, user_states, received, handled, members>>

NextJournal == ProcessJournal

SpecJournal == InitJournal /\ [][NextJournal]_vars

(***************************************************************************)
(* Report tables                                                           *)
(***************************************************************************)

\* The integer part of a number with its thousands apart: "{:,}" with each ","
\* replaced by " ".
RECURSIVE Grouped3(_)
Grouped3(n) ==
    IF n < 1000 THEN NatStr(n)
    ELSE Grouped3(n \div 1000) \o <<" ">>
         \o <<Digit((n \div 100) % 10), Digit((n \div 10) % 10), Digit(n % 10)>>

\* format_number(num) for a number held as hundredths:
\* "{:,.2f}".format(num).replace(",", " ").
format_number(num) ==
    LET mag == IF num < 0 THEN 0 - num ELSE num
    IN  (IF num < 0 THEN <<"-">> ELSE <<>>)
        \o Grouped3(mag \div Hundred) \o <<".">> \o Pad2(mag % Hundred)

\* The average, were a weight of zero to count as one.
Average_ZeroAsOne(sum_val, weight) ==
    IF weight # 0 THEN (2 * sum_val * Hundred + weight) \div (2 * weight) ELSE sum_val

\* "sum_val / weight if weight != 0 else 0" as the hundredths "{:.2f}" shows:
\* the quotient rounded to the nearest hundredth (no quotient of the model lies
\* halfway between two hundredths; the numbers of the model are not negative).
Average(sum_val, weight) ==
    IF weight # 0 THEN (2 * sum_val * Hundred + weight) \div (2 * weight) ELSE 0

\* The kind of materials the sheet of materials does not name: "Інше".
OTHER_KIND == <<"I", "n", "s", "h", "e">>

\* material_mapping.get(material, "Інше"); the mapping is a function on the
\* materials it names.
KindOf(material_mapping, material) ==
    IF material \in DOMAIN material_mapping THEN material_mapping[material] ELSE OTHER_KIND

\* sorted(items, key=lambda x: x[1]["sum"], reverse=True), were it to sort in
\* ascending order.
RECURSIVE SortedBySum_Ascending(_)
SortedBySum_Ascending(items) ==
    IF items = <<>> THEN <<>>
    ELSE LET e    == items[Len(items)]
             rest == SortedBySum_Ascending(SubSeq(items, 1, Len(items) - 1))
             n    == Cardinality({ i \in 1..Len(rest) : rest[i].sum <= e.sum })
         IN  SubSeq(rest, 1, n) \o <<e>> \o SubSeq(rest, n + 1, Len(rest))

\* sorted(items, key=lambda x: x[1]["sum"], reverse=True): descending sums,
\* items of equal sums in the order they had (the sort is stable, also when
\* reversed).
RECURSIVE SortedBySum(_)
SortedBySum(items) ==
    IF items = <<>> THEN <<>>
    ELSE LET e    == items[Len(items)]
             rest == SortedBySum(SubSeq(items, 1, Len(items) - 1))
             n    == Cardinality({ i \in 1..Len(rest) : rest[i].sum >= e.sum })
         IN  SubSeq(rest, 1, n) \o <<e>> \o SubSeq(rest, n + 1, Len(rest))

\* The first loop of generate_brief_table_data: grouped, kind -> weight and sum.
RECURSIVE BriefGrouped(_, _, _, _)
BriefGrouped(aggregated_data, i, grouped, material_mapping) ==
    IF i > Len(aggregated_data) THEN grouped
    ELSE LET values == aggregated_data[i]
             kind   == KindOf(material_mapping, values.key)
         IN  BriefGrouped(aggregated_data, i + 1,
                          Accumulate(grouped, kind, values.weight, values.sum),
                          material_mapping)

\* overall_weight / overall_sum: the running total of a field over the items.
RECURSIVE Overall(_, _)
Overall(items, field) ==
    IF items = <<>> THEN 0
    ELSE Overall(SubSeq(items, 1, Len(items) - 1), field) + items[Len(items)][field]

\* The labels of the tables: "Вид", "Вага (кг)", "Сума", "Тип сировини",
\* "Середня ціна за кг", "**Загальний підсумок:**", "Вид: ", "   Підсумок (".
BriefHeader == << <<"V", "y", "d">>, <<"V", "a", "h", "a">>, <<"S", "u", "m", "a">> >>
DetailedHeader ==
    << <<"T", "y", "p">>, <<"V", "a", "h", "a">>, <<"S", "u", "m", "a">>, <<"T", "s", "i", "n", "a">> >>
GRAND_TOTAL == <<"*", "*", "Z", "a", "h", "a", "l", "o", "m", ":", "*", "*">>
KIND_PREFIX == <<"V", "y", "d", ":", " ">>
SUBTOTAL_PREFIX == <<" ", " ", " ", "P", "i", "d", "s", "u", "m", "o", "k", " ", "(">>
SUBTOTAL_SUFFIX == <<")", ":">>

\* The grand-total row of the brief table, were overall_sum to add the weights.
BriefTotalRow_Weights(sorted_kinds) ==
    <<GRAND_TOTAL, format_number(Overall(sorted_kinds, "weight")),
      format_number(Overall(sorted_kinds, "weight"))>>

\* The grand-total row of generate_brief_table_data.
BriefTotalRow(sorted_kinds) ==
    <<GRAND_TOTAL, format_number(Overall(sorted_kinds, "weight")),
      format_number(Overall(sorted_kinds, "sum"))>>

\* generate_brief_table_data(aggregated_data, material_mapping): table_data, a
\* sequence of rows of cells.
generate_brief_table_data(aggregated_data, material_mapping) ==
    LET grouped      == BriefGrouped(aggregated_data, 1, <<>>, material_mapping)
        sorted_kinds == SortedBySum(grouped)
    IN  <<BriefHeader>>
        \o [i \in 1..Len(sorted_kinds) |->
               <<sorted_kinds[i].key, format_number(sorted_kinds[i].weight),
                 format_number(sorted_kinds[i].sum)>>]
        \o <<BriefTotalRow(sorted_kinds)>>

\* The first loop of generate_detailed_table_data: grouped, kind -> the entries
\* of its materials, kinds and materials in the order of aggregated_data.
RECURSIVE DetailedGrouped(_, _, _, _)
DetailedGrouped(aggregated_data, i, grouped, material_mapping) ==
    IF i > Len(aggregated_data) THEN grouped
    ELSE LET values == aggregated_data[i]
             kind   == KindOf(material_mapping, values.key)
             g0     == IF kind \in DictKeys(grouped) THEN grouped
                       ELSE Append(grouped, [key |-> kind, materials |-> <<>>])
             k      == DictIndex(g0, kind)
         IN  DetailedGrouped(aggregated_data, i + 1,
                 [g0 EXCEPT ![k].materials = Append(@, values)], material_mapping)

\* kind_subtotals: for each kind of grouped, the sums of the weights and of the
\* amounts of its materials.
KindSubtotals(grouped) ==
    [i \in 1..Len(grouped) |->
        [key |-> grouped[i].key, weight |-> Overall(grouped[i].materials, "weight"),
         sum |-> Overall(grouped[i].materials, "sum")]]

\* The row of a material in the detailed table.
MaterialRow(vals) ==
    LET weight  == vals.weight
        sum_val == vals.sum
        avg     == Average(sum_val, weight)
    IN  <<vals.key, format_number(weight), format_number(sum_val), format_number(avg)>>

\* The rows of one kind: its header, its materials by descending amount, its
\* subtotal.
KindBlock(subtotal, materials) ==
    LET sorted_materials == SortedBySum(materials)
    IN  << <<KIND_PREFIX \o subtotal.key, <<>>, <<>>, <<>> >> >>
        \o [i \in 1..Len(sorted_materials) |-> MaterialRow(sorted_materials[i])]
        \o << <<SUBTOTAL_PREFIX \o subtotal.key \o SUBTOTAL_SUFFIX,
                format_number(subtotal.weight), format_number(subtotal.sum), <<>> >> >>

\* The loop over sorted_kinds, from the i-th kind on.
RECURSIVE KindBlocks(_, _, _)
KindBlocks(sorted_kinds, i, grouped) ==
    IF i > Len(sorted_kinds) THEN <<>>
    ELSE KindBlock(sorted_kinds[i], grouped[DictIndex(grouped, sorted_kinds[i].key)].materials)
         \o KindBlocks(sorted_kinds, i + 1, grouped)

\* generate_detailed_table_data(aggregated_data, material_mapping)
generate_detailed_table_data(aggregated_data, material_mapping) ==
    LET grouped      == DetailedGrouped(aggregated_data, 1, <<>>, material_mapping)
        sorted_kinds == SortedBySum(KindSubtotals(grouped))
    IN  <<DetailedHeader>>
        \o KindBlocks(sorted_kinds, 1, grouped)
        \o << <<GRAND_TOTAL, format_number(Overall(sorted_kinds, "weight")),
                format_number(Overall(sorted_kinds, "sum")), <<>> >> >>

(***************************************************************************)
(* The table builders on their own: one call on a drawn aggregated mapping *)
(***************************************************************************)

Zinc == <<"Z", "n">>

Materials == {Copper, Brass, Lead, Zinc}

\* The kinds of the sheet of materials.
Coloured == <<"K", "o", "l">>
Heavy == <<"V", "a", "z", "h">>

\* What get_material_mapping() may return: two materials of one kind and one
\* of another (zinc is not named), or {} (the sheet could not be read).
MaterialMappings ==
    { [m \in {Copper, Brass, Lead} |-> IF m = Lead THEN Heavy ELSE Coloured],
      [m \in {} |-> Heavy] }

\* The weights and amounts of an entry, in hundredths: 0 kg for 20.00; 2.5 kg
\* for 40.00; 3 kg for 20.00; 1000 kg for 1000.50.
EntryValues ==
    { [weight |-> 0, sum |-> 2000], [weight |-> 250, sum |-> 4000],
      [weight |-> 300, sum |-> 2000], [weight |-> 100000, sum |-> 100050] }

MaxMaterials == 3

\* Aggregated mappings: up to MaxMaterials entries of distinct materials.
AggregatedData ==
    UNION { { [i \in 1..n |-> [key |-> ks[i], weight |-> vs[i].weight, sum |-> vs[i].sum]] :
                ks \in { f \in [1..n -> Materials] :
                           \A i, j \in 1..n : i # j => f[i] # f[j] },
                vs \in [1..n -> EntryValues] } :
            n \in 0..MaxMaterials }

TableCalls ==
    { [fn |-> f, aggregated_data |-> a, material_mapping |-> m, done |-> FALSE,
       result |-> <<>>] :
        f \in {"generate_brief_table_data", "generate_detailed_table_data"},
        a \in AggregatedData, m \in MaterialMappings }

InitTables == WizardAtRest /\ call \in TableCalls

BriefTable ==
    /\ call.fn = "generate_brief_table_data" /\ ~call.done
    /\ call' = [call EXCEPT !.done = TRUE,
                            !.result = generate_brief_table_data(call.aggregated_data,
                                                                 call.material_mapping)]
    /\ UNCHANGED <<conversations, user_states, received, handled, members>>

DetailedTable ==
    /\ call.fn = "generate_detailed_table_data" /\ ~call.done
    /\ call' = [call EXCEPT !.done = TRUE,
                            !.result = generate_detailed_table_data(call.aggregated_data,
                                                                    call.material_mapping)]
    /\ UNCHANGED <<conversations, user_states, received, handled, members>>

NextTables == BriefTable \/ DetailedTable

SpecTables == InitTables /\ [][NextTables]_vars

(***************************************************************************)
(* Report generation                                                       *)
(***************************************************************************)

\* date.strftime("%Y-%m-%d")
StrfYMD(n) ==
    LET d == Ord2Ymd(n) IN Pad4(d.year) \o <<"-">> \o Pad2(d.month) \o <<"-">> \o Pad2(d.day)

\* dict.get(key) of the params: <<>> stands for None and for "" alike (both are
\* false where the code tests the value).
Get(params, key) == IF key \in DOMAIN params THEN params[key] ELSE <<>>

\* The try block, were each date that parses kept and only the other one
\* replaced by today.
ReportDates_KeepsParsed(params, today) ==
    [start_date |-> IF "startDate" \in DOMAIN params /\ StrpDMY(params["startDate"]) # 0
                    THEN StrpDMY(params["startDate"]) ELSE today,
     end_date   |-> IF "endDate" \in DOMAIN params /\ StrpDMY(params["endDate"]) # 0
                    THEN StrpDMY(params["endDate"]) ELSE today]

\* The try block that parses params["startDate"] and params["endDate"]: both
\* dates, or today for both when a key is missing or a text does not parse.
ReportDates(params, today) ==
    IF /\ "startDate" \in DOMAIN params /\ StrpDMY(params["startDate"]) # 0
       /\ "endDate" \in DOMAIN params /\ StrpDMY(params["endDate"]) # 0
    THEN [start_date |-> StrpDMY(params["startDate"]), end_date |-> StrpDMY(params["endDate"])]
    ELSE [start_date |-> today, end_date |-> today]

\* full_month, were the months of start and end not compared.
FullMonth_AnyMonth(start_date, end_date) ==
    LET s == Ord2Ymd(start_date)
        e == Ord2Ymd(end_date)
    IN  s.day = 1 /\ e.day = DaysInMonth(s.year, s.month) /\ s.year = e.year

\* full_month of generate_pdf_report.
FullMonth(start_date, end_date) ==
    LET s == Ord2Ymd(start_date)
        e == Ord2Ymd(end_date)
    IN  /\ s.day = 1
        /\ e.day = DaysInMonth(s.year, s.month) /\ s.month = e.month /\ s.year = e.year

\* "Загальний", the location text of a report of all locations.
GENERAL_TEXT == <<"Z", "a", "h", "a", "l", "n", "y", "i">>

\* docTitle, as the form chosen and the values written into it:
\* "Звіт за {day} {monthName} {year} року ({locationText})",
\* "Звіт про закупівлі та продажі: {locationText} за {monthName} {year} року" or
\* "Звіт: {locationText} | {startString} - {endString}".
DocTitle(start_date, end_date, locationText) ==
    LET full_month == FullMonth(start_date, end_date)
        s          == Ord2Ymd(start_date)
    IN  IF start_date = end_date /\ ~full_month
        THEN [form |-> "single_day", day |-> s.day, month |-> s.month, year |-> s.year,
              location |-> locationText]
        ELSE IF full_month
        THEN [form |-> "month", month |-> s.month, year |-> s.year, location |-> locationText]
        ELSE [form |-> "range", startString |-> StrfYMD(start_date),
              endString |-> StrfYMD(end_date), location |-> locationText]

\* op_types: the code of each operation and the heading of its block
\* ("Куплені матеріали", "Продані матеріали", "Відвантажені матеріали").
op_types ==
    << [code |-> OP_BUY, title |-> "Kupleni materialy"],
       [code |-> OP_SELL, title |-> "Prodani materialy"],
       [code |-> OP_SHIP, title |-> "Vidvantazheni materialy"] >>

Spacer == [kind |-> "spacer"]

\* str.startswith(prefix)
HasPrefix(cell, prefix) == Len(cell) >= Len(prefix) /\ SubSeq(cell, 1, Len(prefix)) = prefix

\* build_table_style: the rows set in bold, those of the grand total and of
\* the subtotals.
BoldRows(table_data) ==
    { i \in 1..Len(table_data) :
        \/ HasPrefix(table_data[i][1], SubSeq(GRAND_TOTAL, 1, Len(GRAND_TOTAL) - 2))
        \/ HasPrefix(Strip(table_data[i][1]), Strip(SubSeq(SUBTOTAL_PREFIX, 1,
                                                           Len(SUBTOTAL_PREFIX) - 2))) }

\* Table(table_data) with build_table_style(table_data), as they are appended
\* to the story.
TableElement(table_data) ==
    [kind |-> "table", data |-> table_data, bold |-> BoldRows(table_data)]

\* What an operation appends to the story once its rows are aggregated: the
\* heading, then the 'no data' paragraph or the table of the view chosen.
OpStory(op_title, viewMode, material_mapping, aggregated_data) ==
    << [kind |-> "heading", text |-> op_title], Spacer >>
    \o (IF aggregated_data = <<>>
        THEN << [kind |-> "no_data", text |-> op_title], Spacer >>
        ELSE << TableElement(IF viewMode = "STYSLYI"
                             THEN generate_brief_table_data(aggregated_data, material_mapping)
                             ELSE generate_detailed_table_data(aggregated_data,
                                                               material_mapping)),
                Spacer >>)

\* The body of the loop over op_types for its i-th operation; sheet is what
\* this call of process_journal reads.
OpBlock(i, params, dates, material_mapping, sheet) ==
    OpStory(op_types[i].title, Get(params, "viewMode"), material_mapping,
            process_journal(op_types[i].code, dates.start_date, dates.end_date,
                            Get(params, "location"), sheet))

UntilEmpty(block, rest) == IF block[3].kind = "no_data" THEN block ELSE block \o rest

\* The loop over op_types, were an operation without data to end it.
RECURSIVE OpBlocks_StopAtEmpty(_, _, _, _, _)
OpBlocks_StopAtEmpty(i, params, dates, material_mapping, reads) ==
    IF i > Len(op_types) THEN <<>>
    ELSE UntilEmpty(OpBlock(i, params, dates, material_mapping, reads[i]),
                    OpBlocks_StopAtEmpty(i + 1, params, dates, material_mapping, reads))

\* for op_code, op_title in op_types: the blocks from the i-th operation on;
\* reads[i] is the JOURNAL sheet as the i-th call of process_journal reads it.
RECURSIVE OpBlocks(_, _, _, _, _)
OpBlocks(i, params, dates, material_mapping, reads) ==
    IF i > Len(op_types) THEN <<>>
    ELSE OpBlock(i, params, dates, material_mapping, reads[i])
         \o OpBlocks(i + 1, params, dates, material_mapping, reads)

\* locationText of generate_pdf_report.
LocationText(params) ==
    IF Get(params, "location") # <<>> THEN Get(params, "location") ELSE GENERAL_TEXT

\* The document of generate_pdf_report once its dates are parsed: the title
\* and the story (logo, info line, title, the blocks of the operations), or
\* raised when doc.build fails.
Built(params, env, dates, docTitle) ==
    IF env.failure = "build" THEN [raised |-> TRUE]
    ELSE [raised |-> FALSE, title |-> docTitle,
          story |-> (IF env.logo THEN << [kind |-> "logo"], Spacer >> ELSE <<>>)
                    \o << [kind |-> "info",
                           generated_by |-> IF "generated_by" \in DOMAIN params
                                            THEN params["generated_by"] ELSE "Nevidomyi"],
                          Spacer,
                          [kind |-> "title", title |-> docTitle], Spacer >>
                    \o OpBlocks(1, params, dates, env.material_mapping, env.reads)]

Document(params, env, dates) ==
    Built(params, env, dates, DocTitle(dates.start_date, dates.end_date, LocationText(params)))

\* generate_pdf_report(params).  env is what the call meets: failure "fonts"
\* (registerFont raises), "build" (doc.build raises), "send" or "none"; logo,
\* whether the logo image loads; material_mapping, what get_material_mapping()
\* returns; reads, the JOURNAL sheet at each of the three reads.  The result is
\* raised, or the title and the story of the document.
generate_pdf_report(params, today, env) ==
    IF env.failure = "fonts" THEN [raised |-> TRUE]
    ELSE Document(params, env, ReportDates(params, today))

\* send_report(chat_id, pdf_buffer, context) after the document is made:
\* nothing is sent when making it raised or the sending fails.
SendDocument(chat_id, env, pdf) ==
    IF pdf.raised \/ env.failure = "send" THEN [raised |-> TRUE, sent |-> <<>>]
    ELSE [raised |-> FALSE,
          sent |-> << [kind |-> "document", chat_id |-> chat_id, pdf |-> pdf] >>]

\* generate_report_from_params(params, chat_id, context): sent is what reaches
\* the chat, the document or nothing; no text is sent on any path.
generate_report_from_params(params, chat_id, today, env) ==
    SendDocument(chat_id, env, generate_pdf_report(params, today, env))

(***************************************************************************)
(* Report generation on its own: one call on drawn params and sheets       *)
(***************************************************************************)

\* The days the titles are made for: TitleSpan days from 1 January 2024, and
\* days of February 2025 and 2026.
TitleSpan == 91

TitleDays ==
    { Ymd2Ord(2024, 1, 1) + i : i \in 0..(TitleSpan - 1) }
    \cup { Ymd2Ord(2025, 2, 1), Ymd2Ord(2025, 2, 5), Ymd2Ord(2025, 2, 19),
           Ymd2Ord(2025, 2, 28), Ymd2Ord(2026, 2, 28) }

TitleCalls ==
    { [fn |-> "doc_title", start_date |-> s, end_date |-> e, done |-> FALSE,
       result |-> [form |-> "none"]] : s \in TitleDays, e \in TitleDays }

RowShip == JournalRowOf(DateText(2025, 3, 2), Lead, OP_SHIP, <<"4">>, <<"8", "0">>, Irpin)

\* What a read of the JOURNAL sheet gives a report: nothing (the spreadsheet
\* is unreachable), rows of all three operations, or the header alone.
ReportReads ==
    { SheetRead("unreachable", <<>>),
      SheetRead("ok", <<JournalHeader, RowPlain, RowSpaced, RowSell, RowShip>>),
      SheetRead("ok", <<JournalHeader, RowSell>>) }

ReportToday == Ymd2Ord(2025, 3, 2)

\* The records the wizard leaves for a report: the range 01.03.2025 to
\* 15.03.2025, a start that is no date, an end that is empty (the text
\* "01.03.2025-" of custom_dates).
ReportParams ==
    { [stage |-> "completed", generated_by |-> "Alice A", location |-> loc,
       viewMode |-> view, periodType |-> PERIOD_CUSTOM, startDate |-> start,
       endDate |-> end] :
        loc \in {<<>>, Irpin}, view \in ViewModes,
        start \in {DateText(2025, 3, 1), <<"1", " ", "b", "e", "r">>},
        end \in {DateText(2025, 3, 15), <<>>} }

ReportEnvs ==
    { [failure |-> f, logo |-> l, material_mapping |-> m, reads |-> r] :
        f \in {"none", "fonts", "build", "send"}, l \in BOOLEAN,
        m \in MaterialMappings, r \in [1..3 -> ReportReads] }

ReportCalls ==
    { [fn |-> f, params |-> p, today |-> ReportToday, env |-> e, done |-> FALSE,
       result |-> [raised |-> FALSE]] :
        f \in {"generate_pdf_report", "generate_report_from_params"},
        p \in ReportParams, e \in ReportEnvs }

InitReport == WizardAtRest /\ call \in TitleCalls \cup ReportCalls

TitleOf ==
    /\ call.fn = "doc_title" /\ ~call.done
    /\ call' = [call EXCEPT !.done = TRUE,
                            !.result = DocTitle(call.start_date, call.end_date, GENERAL_TEXT)]
    /\ UNCHANGED <<conversations, user_states, received, handled, members>>

GeneratePdf ==
    /\ call.fn = "generate_pdf_report" /\ ~call.done
    /\ call' = [call EXCEPT !.done = TRUE,
                            !.result = generate_pdf_report(call.params, call.today, call.env)]
    /\ UNCHANGED <<conversations, user_states, received, handled, members>>

GenerateReport ==
    /\ call.fn = "generate_report_from_params" /\ ~call.done
    /\ call' = [call EXCEPT !.done = TRUE,
                            !.result = generate_report_from_params(call.params, -5, call.today,
                                                                   call.env)]
    /\ UNCHANGED <<conversations, user_states, received, handled, members>>

NextReport == TitleOf \/ GeneratePdf \/ GenerateReport

SpecReport == InitReport /\ [][NextReport]_vars

(***************************************************************************)
(* The location step of both variants, applied on its own                  *)
(***************************************************************************)

\* The label of the general button of src/bot.py.
bot_GENERAL == "Zahalnyi"                 \* "Загальний"

\* choose_location_callback of src/bot.py: the label is stored as it is.
bot_choose_location_callback(us, chat_id, location) ==
    LET state == get_state_or_empty(us, chat_id)
        s1    == Put(state, "location", location)
        s2    == Put(s1, "stage", "choose_view")
    IN  Returns(set_state(us, chat_id, s2), CHOOSING_VIEW)

\* The buttons report_command offers: of src/reportbot.py the configured
\* locations and the general report, of src/bot.py its three fixed buttons.
LocationButtons(variant) ==
    IF variant = "reportbot" THEN {"IRPIN", "HOSTOMEL", GENERAL_REPORT}
    ELSE {"IRPIN", "HOSTOMEL", bot_GENERAL}

\* The general button of a variant.
GeneralButton(variant) == IF variant = "reportbot" THEN GENERAL_REPORT ELSE bot_GENERAL

\* The record of a chat when a location button is pressed: as report_command
\* of either variant left it, or as an earlier run left it.
LocationRecords ==
    { [stage |-> "choose_location"],
      [stage |-> "choose_location", generated_by |-> "Alice A"],
      [stage |-> "choose_location", generated_by |-> "bob"],
      [stage |-> "choose_view", generated_by |-> "bob", location |-> "IRPIN"],
      [stage |-> "choose_period", location |-> "", viewMode |-> "STYSLYI"] }

LocationStores ==
    {EmptyDict} \cup { set_state(EmptyDict, c, r) : c \in {7, -5}, r \in LocationRecords }

LocationCalls ==
    { [fn |-> "choose_location_callback", variant |-> v, us |-> us, chat_id |-> c,
       location |-> l, done |-> FALSE, result |-> Returns(us, END)] :
        v \in {"reportbot", "bot"}, us \in LocationStores, c \in {7, -5},
        l \in LocationButtons("reportbot") \cup LocationButtons("bot") }

InitLocation ==
    /\ WizardAtRest
    /\ call \in { c \in LocationCalls : c.location \in LocationButtons(c.variant) }

LocationOfReportbot ==
    /\ call.fn = "choose_location_callback" /\ call.variant = "reportbot" /\ ~call.done
    /\ call' = [call EXCEPT !.done = TRUE,
                            !.result = choose_location_callback(call.us, call.chat_id,
                                                                call.location)]
    /\ UNCHANGED <<conversations, user_states, received, handled, members>>

LocationOfBot ==
    /\ call.fn = "choose_location_callback" /\ call.variant = "bot" /\ ~call.done
    /\ call' = [call EXCEPT !.done = TRUE,
                            !.result = bot_choose_location_callback(call.us, call.chat_id,
                                                                    call.location)]
    /\ UNCHANGED <<conversations, user_states, received, handled, members>>

NextLocation == LocationOfReportbot \/ LocationOfBot

SpecLocation == InitLocation /\ [][NextLocation]_vars

(***************************************************************************)
(* Claims                                                                  *)
(***************************************************************************)

\* The state of a conversation key, END when the key has no conversation.
StateOf(convs, key) == IF key \in DOMAIN convs THEN convs[key] ELSE END

\* The key and the chat of the update the last step dispatched.
HandledKey == ConvKey(handled.upd)
HandledChat == Str(handled.upd.chat)

ConversationHandlers ==
    {"report_command", "choose_location_callback", "choose_view_callback",
     "choose_period_callback", "custom_dates", "cancel"}

\* The moves of one key the wizard allows: into the wizard at its first state,
\* one state forward, from the period choice or the date entry to the end, and
\* to the end from anywhere by cancel.
WizardMove(from, to, handler) ==
    \/ from = END /\ to = CHOOSING_LOCATION /\ handler = "report_command"
    \/ from = CHOOSING_LOCATION /\ to = CHOOSING_VIEW
    \/ from = CHOOSING_VIEW /\ to = CHOOSING_PERIOD
    \/ from = CHOOSING_PERIOD /\ to \in {ENTERING_CUSTOM_DATES, END}
    \/ from = ENTERING_CUSTOM_DATES /\ to = END
    \/ from \in WizardStates /\ to = END /\ handler = "cancel"

\* C1: every key moves through the states only in the order CHOOSING_LOCATION,
\* CHOOSING_VIEW, CHOOSING_PERIOD, then the end or ENTERING_CUSTOM_DATES and the
\* end (no state skipped, none entered again once left), and a step triggers
\* report generation only from CHOOSING_PERIOD or ENTERING_CUSTOM_DATES, after a
\* location, a view mode and a period were received in that run.
C1_WizardOrder ==
    [][ /\ \A k \in KeysOf(members) :
              \/ StateOf(conversations', k) = StateOf(conversations, k)
              \/ /\ handled'.handler \in ConversationHandlers
                 /\ k = ConvKey(handled'.upd)
                 /\ WizardMove(StateOf(conversations, k), StateOf(conversations', k),
                               handled'.handler)
        /\ handled'.gen # <<>> =>
              /\ StateOf(conversations, ConvKey(handled'.upd))
                     \in {CHOOSING_PERIOD, ENTERING_CUSTOM_DATES}
              /\ {"location", "view", "period"} \subseteq handled'.received
      ]_vars

\* A run that went through the date entry and ended with its report delivered.
C1_Witness ==
    /\ handled.handler = "custom_dates"
    /\ handled.gen # <<>>
    /\ ~handled.raised
    /\ handled.received = {"location", "view", "period"}
    /\ HandledKey \notin DOMAIN conversations

\* C2: a /report of a chat that is_user_allowed refuses creates and changes no
\* entry of user_states, returns END leaving the key without a conversation,
\* and generates no report.
C2_DeniedEntry ==
    [][ (handled'.handler = "report_command" /\ ~handled'.allowed) =>
              /\ user_states' = user_states
              /\ conversations' = conversations
              /\ ConvKey(handled'.upd) \notin DOMAIN conversations'
              /\ handled'.ret = END
              /\ ~handled'.raised
              /\ handled'.gen = <<>>
      ]_vars

\* A refused /report in a chat that holds a record of an earlier, admitted run.
C2_Witness ==
    /\ handled.handler = "report_command"
    /\ ~handled.allowed
    /\ HandledChat \in DOMAIN user_states
    /\ HandledKey \notin DOMAIN conversations

\* A row that grants chat_id the report permission: its column C holds the id
\* and its column G holds REPORT (blanks around either, and the case of the
\* permission, set aside).
RowGrants(row, chat_id) ==
    /\ Len(row) >= 7
    /\ Strip(row[3]) = Str(chat_id)
    /\ Upper(Strip(row[7])) = REPORT

\* The lookup of chat_id fails: the sheet cannot be read, or a row too short to
\* index comes before any granting row.
LookupFails(chat_id, sheet) ==
    \/ sheet.status # "ok"
    \/ \E i \in 2..Len(sheet.data) :
          /\ Len(sheet.data[i]) < 7
          /\ \A j \in 2..(i - 1) : ~RowGrants(sheet.data[j], chat_id)

\* C3: is_user_allowed returns True only if the USERS sheet was read and a row
\* under its header grants the caller's id the REPORT permission; when the
\* lookup fails (spreadsheet unreachable, sheet missing, a row too short to
\* index) it returns False; no exception leaves it.
C3_FailClosed ==
    (call.fn = "is_user_allowed" /\ call.done) =>
        /\ call.result.value =>
              /\ call.sheet.status = "ok"
              /\ \E i \in 2..Len(call.sheet.data) : RowGrants(call.sheet.data[i], call.chat_id)
        /\ LookupFails(call.chat_id, call.sheet) => ~call.result.value
        /\ ~call.result.raised

\* The lookup passes a row of another identity and fails on a short row, with a
\* granting row behind it.
C3_Witness ==
    /\ call.fn = "is_user_allowed" /\ call.done
    /\ call.sheet.status = "ok"
    /\ Len(call.sheet.data) = 3
    /\ Len(call.sheet.data[2]) < 7
    /\ RowGrants(call.sheet.data[3], call.chat_id)
    /\ ~call.result.value

\* C4 as claimed: once a report was generated and delivered, or the wizard was
\* cancelled, the store holds no record for that chat.
C4_RecordDiscarded ==
    (\/ handled.handler = "cancel"
     \/ handled.gen # <<>> /\ ~handled.raised)
        => HandledChat \notin DOMAIN user_states

\* C4, amended: no step discards a record.  The step that generates the report
\* leaves the chat's record in the store, with stage "completed" and the
\* parameters of that report; cancel leaves the store as it is; a record goes
\* only by being overwritten by a later step in its chat.
C4_RecordKept ==
    [][ /\ DOMAIN user_states \subseteq DOMAIN user_states'
        /\ handled'.handler = "cancel" => user_states' = user_states
        /\ handled'.gen # <<>> =>
              /\ Str(handled'.upd.chat) \in DOMAIN user_states'
              /\ user_states'[Str(handled'.upd.chat)] = handled'.gen[1].params
              /\ user_states'[Str(handled'.upd.chat)]["stage"] = "completed"
      ]_vars

\* A cancelled wizard whose record is still in the store.
C4_Witness ==
    /\ handled.handler = "cancel"
    /\ HandledKey \notin DOMAIN conversations
    /\ HandledChat \in DOMAIN user_states
    /\ user_states[HandledChat]["stage"] = "choose_period"

\* The /cancel message of a member.
CancelOf(m) ==
    [kind |-> "message", chat |-> m.chat, user |-> m.user, text |-> <<"/">> \o CMD_CANCEL]

\* C5: /cancel is accepted in each of the four wizard states; it ends the
\* conversation of its key and generates no report; a key without a
\* conversation has none of its button presses or free texts handled, and gets
\* a conversation again only by report_command.
C5_CancelTerminal ==
    [][ /\ \A m \in members :
              StateOf(conversations, <<m.chat, m.user.id>>) \in WizardStates
                  => Dispatch(conversations, CancelOf(m)) = "cancel"
        /\ handled'.handler = "cancel" =>
              /\ StateOf(conversations, ConvKey(handled'.upd)) \in WizardStates
              /\ ConvKey(handled'.upd) \notin DOMAIN conversations'
              /\ handled'.gen = <<>>
              /\ ~handled'.raised
        /\ \A upd \in Updates :
              (Member(upd) \in members /\ ConvKey(upd) \notin DOMAIN conversations)
                  => Dispatch(conversations, upd) \in {"none", "report_command", "start_command"}
        /\ \A k \in KeysOf(members) :
              (k \notin DOMAIN conversations /\ k \in DOMAIN conversations')
                  => handled'.handler = "report_command" /\ k = ConvKey(handled'.upd)
      ]_vars

\* A wizard cancelled while it waited for the dates.
C5_Witness ==
    /\ members = PrivateChat
    /\ handled.handler = "cancel"
    /\ HandledKey \notin DOMAIN conversations
    /\ user_states[HandledChat]["stage"] = "enter_custom_dates"

\* The number of "-"-separated tokens of a text.
TokenCount(text) == Cardinality({ i \in 1..Len(text) : text[i] = "-" }) + 1

\* C6: in ENTERING_CUSTOM_DATES a text with a number of tokens other than 1 or
\* 2 is rejected: the handler returns ENTERING_CUSTOM_DATES, the conversation
\* and the whole store stay as they are, no report is generated, and the same
\* text would be taken by custom_dates again.
C6_RejectHolds ==
    [][ (handled'.handler = "custom_dates" /\ TokenCount(handled'.upd.text) \notin {1, 2}) =>
              /\ handled'.ret = ENTERING_CUSTOM_DATES
              /\ ~handled'.raised
              /\ handled'.gen = <<>>
              /\ conversations' = conversations
              /\ StateOf(conversations', ConvKey(handled'.upd)) = ENTERING_CUSTOM_DATES
              /\ user_states' = user_states
              /\ Dispatch(conversations', handled'.upd) = "custom_dates"
      ]_vars

\* The three-token text rejected while the record waits for dates.
C6_Witness ==
    /\ handled.handler = "custom_dates"
    /\ handled.upd.text = T_three
    /\ StateOf(conversations, HandledKey) = ENTERING_CUSTOM_DATES
    /\ user_states[HandledChat]["stage"] = "enter_custom_dates"

\* The pair of dates a text of one or two tokens stands for.
ExpectedRange(text) ==
    LET parts == Split(text, "-") IN
    [startDate |-> Strip(parts[1]),
     endDate   |-> IF TokenCount(text) = 2 THEN Strip(parts[2]) ELSE Strip(parts[1])]

\* C7: custom_dates on a text of one token stores that token, trimmed, as
\* startDate and as endDate; on a text of two tokens it stores the first,
\* trimmed, as startDate and the second, trimmed, as endDate; the tokens are
\* stored as typed (an empty second token included), the stage becomes
\* "completed" and report generation is triggered with the stored record (the
\* conversation ends when that call returns).
C7_CustomRange ==
    (handled.handler = "custom_dates" /\ TokenCount(handled.upd.text) \in {1, 2}) =>
        LET state == user_states[HandledChat] IN
        /\ state["startDate"] = ExpectedRange(handled.upd.text).startDate
        /\ state["endDate"] = ExpectedRange(handled.upd.text).endDate
        /\ handled.upd.text = T_one =>
              state["startDate"] = DateText(2025, 3, 1) /\ state["endDate"] = DateText(2025, 3, 1)
        /\ handled.upd.text \in {T_two, T_spaced} =>
              state["startDate"] = DateText(2025, 3, 1) /\ state["endDate"] = DateText(2025, 3, 15)
        /\ handled.upd.text = T_open =>
              state["startDate"] = DateText(2025, 3, 1) /\ state["endDate"] = <<>>
        /\ state["periodType"] = PERIOD_CUSTOM
        /\ state["stage"] = "completed"
        /\ Len(handled.gen) = 1
        /\ handled.gen[1].params = state
        /\ ~handled.raised => HandledKey \notin DOMAIN conversations

\* Two tokens with blanks around them, stored trimmed.
C7_Witness ==
    /\ handled.handler = "custom_dates"
    /\ handled.upd.text = T_spaced
    /\ user_states[HandledChat]["endDate"] = DateText(2025, 3, 15)
    /\ handled.gen # <<>>

\* The value of a field of a dict, <<"absent">> when the dict has no such field.
Field(d, k) == IF k \in DOMAIN d THEN <<d[k]>> ELSE <<"absent">>

\* C8 as claimed: in CHOOSING_PERIOD a named period stores the dates
\* compute_standard_period gives, triggers report generation in the same step
\* and ends the conversation; the custom-range option moves the conversation
\* to ENTERING_CUSTOM_DATES, writes no startDate or endDate and triggers no
\* report generation.
C8_PeriodStep ==
    [][ handled'.handler = "choose_period_callback" =>
          LET chat   == Str(handled'.upd.chat)
              key    == ConvKey(handled'.upd)
              before == get_state_or_empty(user_states, handled'.upd.chat)
              after  == user_states'[chat]
          IN  IF handled'.upd.value \in NamedPeriods
              THEN /\ after["startDate"]
                          = compute_standard_period(handled'.upd.value, handled'.today).start
                   /\ after["endDate"]
                          = compute_standard_period(handled'.upd.value, handled'.today).end
                   /\ Len(handled'.gen) = 1
                   /\ key \notin DOMAIN conversations'
              ELSE /\ StateOf(conversations', key) = ENTERING_CUSTOM_DATES
                   /\ Field(after, "startDate") = Field(before, "startDate")
                   /\ Field(after, "endDate") = Field(before, "endDate")
                   /\ handled'.gen = <<>>
      ]_vars

\* A call of the given function that has returned.
Returned(fn) == call.fn = fn /\ call.done

\* C9 as claimed: the resolver gives a range for the four named periods only;
\* for any other label it produces no range, and the caller takes that label
\* as a custom-range request: it moves to ENTERING_CUSTOM_DATES, generates no
\* report and does not complete the wizard.
C9_OtherRejected ==
    /\ (Returned("compute_standard_period") /\ call.period \notin NamedPeriods)
          => "start" \notin DOMAIN call.result
    /\ (Returned("choose_period_callback") /\ call.period \notin NamedPeriods)
          => /\ call.result.ret = ENTERING_CUSTOM_DATES
             /\ call.result.gen = <<>>
             /\ call.result.us[Str(-5)]["stage"] # "completed"

\* C9, amended: the resolver rejects no label.  For each of the four named
\* periods it gives that period's range, and for any other label (free text,
\* the custom-range label) it gives today as start and as end.  The caller
\* keeps the custom-range label from the resolver and takes it alone as a
\* custom-range request (ENTERING_CUSTOM_DATES, no dates stored, no report);
\* any other label it hands to the resolver, stores the range it gets (today's
\* for a label that is no named period) with stage "completed" and triggers
\* report generation.
C9_OtherIsToday ==
    /\ Returned("compute_standard_period") =>
          /\ DOMAIN call.result = {"start", "end"}
          /\ StrpDMY(call.result.start) # 0 /\ StrpDMY(call.result.end) # 0
          /\ call.period \notin NamedPeriods =>
                /\ StrpDMY(call.result.start) = call.today
                /\ StrpDMY(call.result.end) = call.today
    /\ Returned("choose_period_callback") =>
          LET state == call.result.us[Str(-5)] IN
          IF call.period = PERIOD_CUSTOM
          THEN /\ call.result.ret = ENTERING_CUSTOM_DATES
               /\ ~call.result.raised
               /\ call.result.gen = <<>>
               /\ state["stage"] = "enter_custom_dates"
               /\ "startDate" \notin DOMAIN state /\ "endDate" \notin DOMAIN state
          ELSE /\ state["stage"] = "completed"
               /\ state["periodType"] = call.period
               /\ StrpDMY(state["startDate"]) # 0
               /\ call.period \notin NamedPeriods =>
                     /\ StrpDMY(state["startDate"]) = call.today
                     /\ StrpDMY(state["endDate"]) = call.today
               /\ Len(call.result.gen) = 1
               /\ call.result.gen[1].params = state

\* The caller given a free-text label: the record is completed with today's
\* date and the report is delivered.
C9_Witness ==
    /\ Returned("choose_period_callback")
    /\ call.period = "Mynuloho roku"
    /\ call.result.us[Str(-5)]["stage"] = "completed"
    /\ call.result.us[Str(-5)]["startDate"] = StrfDMY(call.today)
    /\ call.result.gen # <<>>
    /\ ~call.result.raised

\* Monday 2 January 2023, a Monday known from the calendar.
KnownMonday == Ymd2Ord(2023, 1, 2)

IsMonday(day) == (day - KnownMonday) % 7 = 0
IsSunday(day) == (day - KnownMonday) % 7 = 6

\* The Monday of the week that contains the day.
MondayOfWeek(day) == day - ((day - KnownMonday) % 7)

\* C10: for every today, the last-week period of compute_standard_period
\* starts on a Monday, ends on the Sunday six days later, covers 7 days
\* inclusive, and ends before the Monday of the week that contains today (on
\* the day before that Monday).
C10_LastWeek ==
    (Returned("compute_standard_period") /\ call.period = PERIOD_LAST_WEEK) =>
        LET start == StrpDMY(call.result.start)
            end   == StrpDMY(call.result.end)
        IN  /\ start # 0 /\ end # 0
            /\ IsMonday(start)
            /\ IsSunday(end)
            /\ end = start + 6
            /\ Cardinality(start..end) = 7
            /\ end < MondayOfWeek(call.today)
            /\ end = MondayOfWeek(call.today) - 1

\* Last week asked for on a Monday, the first of a month and of a year
\* (Monday 1 January 2024): the week lies in the year before.
C10_Witness ==
    /\ Returned("compute_standard_period")
    /\ call.period = PERIOD_LAST_WEEK
    /\ call.today = Ymd2Ord(2024, 1, 1)
    /\ IsMonday(call.today)
    /\ call.result.start = DateText(2023, 12, 25)
    /\ call.result.end = DateText(2023, 12, 31)

\* C11: for every today, the last-month period of compute_standard_period
\* starts on day 1 of the calendar month before today's (December of the year
\* before for a day of January) and ends on the last calendar day of that same
\* month and year, so start <= end < the first day of today's month.
C11_LastMonth ==
    (Returned("compute_standard_period") /\ call.period = PERIOD_LAST_MONTH) =>
        LET start == StrpDMY(call.result.start)
            end   == StrpDMY(call.result.end)
            t     == Ord2Ymd(call.today)
            py    == IF t.month = 1 THEN t.year - 1 ELSE t.year
            pm    == IF t.month = 1 THEN 12 ELSE t.month - 1
        IN  /\ start # 0 /\ end # 0
            /\ Ord2Ymd(start) = [year |-> py, month |-> pm, day |-> 1]
            /\ Ord2Ymd(end) = [year |-> py, month |-> pm, day |-> DaysInMonth(py, pm)]
            /\ start <= end
            /\ end < Ymd2Ord(t.year, t.month, 1)
            /\ end + 1 = Ymd2Ord(t.year, t.month, 1)

\* Last month asked for on 1 March of a leap year: February with its 29 days.
C11_Witness ==
    /\ Returned("compute_standard_period")
    /\ call.period = PERIOD_LAST_MONTH
    /\ call.today = Ymd2Ord(2024, 3, 1)
    /\ call.result.start = DateText(2024, 2, 1)
    /\ call.result.end = DateText(2024, 2, 29)

\* The rows of a sheet under its header.
DataRows(sheet) == IF sheet.status = "ok" THEN 2..Len(sheet.data) ELSE {}

\* A row that has the columns of a journal entry (A to J).
HasFields(row) == Len(row) >= 10

\* A row matches the filters of a call: its date lies in [start, end], its
\* operation is the one asked for, and no location is asked for or the row's
\* location is the one asked for.
Matches(row, c) ==
    /\ HasFields(row)
    /\ JournalDate(row) # 0
    /\ c.start_date <= JournalDate(row) /\ JournalDate(row) <= c.end_date
    /\ Strip(row[5]) = c.operation_type
    /\ \/ c.selected_location = <<>>
       \/ Len(row) >= 11 /\ Strip(row[11]) = c.selected_location

\* The value of a numeric cell, an empty or unparsable one counting as zero.
CellValue(cell) == Float(NumberText(cell)).value

RECURSIVE SumOver(_, _, _)
\* The sum of the values of column col over the rows of the index set rows.
SumOver(data, rows, col) ==
    IF rows = {} THEN 0
    ELSE LET i == CHOOSE x \in rows : TRUE
         IN  CellValue(data[i][col]) + SumOver(data, rows \ {i}, col)

\* The matching rows of a material.
RowsOf(c, material) ==
    { i \in DataRows(c.sheet) : Matches(c.sheet.data[i], c) /\ Strip(c.sheet.data[i][4]) = material }

\* C12 as claimed: the keys of the result of process_journal are exactly the
\* materials with at least one matching row, and the weight and the amount of
\* each are the sums over its matching rows; rows that do not match contribute
\* to no entry.
C12_Aggregates ==
    Returned("process_journal") =>
        LET data == call.sheet.data
            mats == { Strip(data[i][4]) : i \in { j \in DataRows(call.sheet) : Matches(data[j], call) } }
        IN  /\ DictKeys(call.result) = mats
            /\ Len(call.result) = Cardinality(mats)
            /\ \A k \in 1..Len(call.result) :
                  /\ call.result[k].weight = SumOver(data, RowsOf(call, call.result[k].key), 6)
                  /\ call.result[k].sum = SumOver(data, RowsOf(call, call.result[k].key), 10)

\* A numeric cell that is empty or that float() refuses.
BadNumber(cell) == cell = <<>> \/ ~Float(NumberText(cell)).ok

\* The sheet with every empty or unparsable weight and amount written as "0".
ZeroedSheet(sheet) ==
    [sheet EXCEPT !.data =
        [i \in 1..Len(sheet.data) |->
            LET row == sheet.data[i] IN
            IF i = 1 \/ ~HasFields(row) THEN row
            ELSE [row EXCEPT ![6]  = IF BadNumber(row[6]) THEN <<"0">> ELSE row[6],
                             ![10] = IF BadNumber(row[10]) THEN <<"0">> ELSE row[10]]]]

\* C13 as claimed: a matching row whose weight or amount is empty or cannot be
\* parsed is aggregated with that field counting as zero: its material is a key
\* of the result and its other number is added, so the result is the one of
\* the sheet with such fields written as "0".
C13_BadNumberIsZero ==
    Returned("process_journal") =>
        /\ \A i \in DataRows(call.sheet) :
              LET row == call.sheet.data[i] IN
              (Matches(row, call) /\ (BadNumber(row[6]) \/ BadNumber(row[10])))
                  => Strip(row[4]) \in DictKeys(call.result)
        /\ call.result = process_journal(call.operation_type, call.start_date, call.end_date,
                                         call.selected_location, ZeroedSheet(call.sheet))

\* A row whose date cannot be parsed, or that lacks columns of a journal entry.
Malformed(row) == ~HasFields(row) \/ JournalDate(row) = 0

\* The sheet without its malformed rows.
WithoutMalformed(sheet) ==
    [sheet EXCEPT !.data =
        <<sheet.data[1]>> \o SelectSeq(Tail(sheet.data), LAMBDA row : ~Malformed(row))]

\* C14: a row whose date cannot be parsed, or that has too few columns, is
\* skipped and does not abort the pass: the result is the one of the same
\* sheet without its malformed rows, and every row the loop body accepts has
\* its material in the result, whatever rows come before or after it.
C14_MalformedSkipped ==
    (Returned("process_journal") /\ call.sheet.status = "ok" /\ call.sheet.data # <<>>) =>
        /\ call.result = process_journal(call.operation_type, call.start_date, call.end_date,
                                         call.selected_location, WithoutMalformed(call.sheet))
        /\ \A i \in DataRows(call.sheet) :
              LET r == JournalRow(call.sheet.data[i], call.operation_type, call.start_date,
                                  call.end_date, call.selected_location)
              IN  r.kind = "add" => r.material \in DictKeys(call.result)
        /\ \A k \in 1..Len(call.result) :
              \E i \in DataRows(call.sheet) :
                  /\ ~Malformed(call.sheet.data[i])
                  /\ Strip(call.sheet.data[i][4]) = call.result[k].key

\* A short row between two rows of copper: both are summed (10 + 2.5 kg,
\* 100 + 1000.50).
C14_Witness ==
    /\ Returned("process_journal")
    /\ call.sheet.data = <<JournalHeader, RowPlain, RowShort, RowSpaced>>
    /\ call.selected_location = <<>>
    /\ call.result = << [key |-> Copper, weight |-> 1250, sum |-> 110050] >>

\* The number a cell of a table shows, in hundredths.
ShownNumber(cell) == Float(Replace(cell, " ", <<>>)).value

\* The sum of the numbers shown in column col of the rows idx of a table.
RECURSIVE SumShown(_, _, _)
SumShown(table, idx, col) ==
    IF idx = {} THEN 0
    ELSE LET i == CHOOSE x \in idx : TRUE
         IN  ShownNumber(table[i][col]) + SumShown(table, idx \ {i}, col)

\* The sum of a field over all entries of an aggregated mapping.
RECURSIVE SumEntries(_, _, _)
SumEntries(aggregated, idx, field) ==
    IF idx = {} THEN 0
    ELSE LET i == CHOOSE x \in idx : TRUE
         IN  aggregated[i][field] + SumEntries(aggregated, idx \ {i}, field)

\* The rows of a detailed table by what they are.
IsKindHeaderRow(row) == HasPrefix(row[1], KIND_PREFIX) /\ row[2] = <<>>
IsSubtotalRow(row) == HasPrefix(row[1], SUBTOTAL_PREFIX) /\ row[4] = <<>>
MaterialRows(table) == { i \in 2..(Len(table) - 1) : table[i][4] # <<>> }
SubtotalRows(table) == { i \in 2..(Len(table) - 1) : IsSubtotalRow(table[i]) }
KindHeaderRows(table) == { i \in 2..(Len(table) - 1) : IsKindHeaderRow(table[i]) }

\* The header row and the subtotal row that enclose row i of a detailed table.
HeaderAbove(table, i) ==
    CHOOSE h \in KindHeaderRows(table) :
        h < i /\ \A j \in KindHeaderRows(table) : j < i => j <= h
SubtotalBelow(table, i) ==
    CHOOSE t \in SubtotalRows(table) :
        t > i /\ \A j \in SubtotalRows(table) : j > i => j >= t

\* The material rows of the block that the subtotal row t closes.
BlockRows(table, t) == { i \in MaterialRows(table) : SubtotalBelow(table, i) = t }

BriefDone == Returned("generate_brief_table_data")
DetailedDone == Returned("generate_detailed_table_data")

AllEntries == 1..Len(call.aggregated_data)

\* C16: the grand-total row of the brief table is the sum of its kind rows, the
\* grand-total row of the detailed table is the sum of its material rows, each
\* kind's subtotal row is the sum of that kind's material rows, and both grand
\* totals are the sums of weight and amount over all entries of the aggregated
\* mapping: every entry is counted once, under its kind or the default kind.
C16_Totals ==
    LET t == call.result
        n == Len(t)
    IN  /\ BriefDone =>
              /\ t[n][1] = GRAND_TOTAL
              /\ \A col \in {2, 3} :
                    ShownNumber(t[n][col]) = SumShown(t, 2..(n - 1), col)
              /\ ShownNumber(t[n][2]) = SumEntries(call.aggregated_data, AllEntries, "weight")
              /\ ShownNumber(t[n][3]) = SumEntries(call.aggregated_data, AllEntries, "sum")
              /\ { t[i][1] : i \in 2..(n - 1) }
                     = { KindOf(call.material_mapping, call.aggregated_data[i].key) :
                           i \in AllEntries }
              /\ \A i, j \in 2..(n - 1) : t[i][1] = t[j][1] => i = j
        /\ DetailedDone =>
              /\ t[n][1] = GRAND_TOTAL
              /\ \A col \in {2, 3} :
                    /\ ShownNumber(t[n][col]) = SumShown(t, MaterialRows(t), col)
                    /\ \A s \in SubtotalRows(t) :
                          ShownNumber(t[s][col]) = SumShown(t, BlockRows(t, s), col)
              /\ ShownNumber(t[n][2]) = SumEntries(call.aggregated_data, AllEntries, "weight")
              /\ ShownNumber(t[n][3]) = SumEntries(call.aggregated_data, AllEntries, "sum")
              /\ { t[i][1] : i \in MaterialRows(t) }
                     = { call.aggregated_data[i].key : i \in AllEntries }
              /\ Cardinality(MaterialRows(t)) = Len(call.aggregated_data)

\* A detailed table of two kinds, one of them of two materials, zinc under the
\* default kind: header, two blocks and the grand total.
C16_Witness ==
    /\ DetailedDone
    /\ { call.aggregated_data[i].key : i \in AllEntries } = {Copper, Brass, Zinc}
    /\ call.material_mapping # << >>
    /\ Len(call.result) = 9
    /\ \E s \in SubtotalRows(call.result) :
          /\ call.result[s][1] = SUBTOTAL_PREFIX \o OTHER_KIND \o SUBTOTAL_SUFFIX
          /\ Cardinality(BlockRows(call.result, s)) = 1

\* C17: in both tables the kinds come in non-increasing order of their summed
\* amounts; in the detailed table the materials of a kind come in
\* non-increasing order of their amounts, each between the header row of its
\* own kind and that kind's subtotal row.
C17_Ordering ==
    LET t == call.result
        n == Len(t)
    IN  /\ BriefDone =>
              \A i \in 2..(n - 2) : ShownNumber(t[i][3]) >= ShownNumber(t[i + 1][3])
        /\ DetailedDone =>
              /\ \A s1, s2 \in SubtotalRows(t) :
                    s1 < s2 => ShownNumber(t[s1][3]) >= ShownNumber(t[s2][3])
              /\ \A i, j \in MaterialRows(t) :
                    (i < j /\ SubtotalBelow(t, i) = SubtotalBelow(t, j))
                        => ShownNumber(t[i][3]) >= ShownNumber(t[j][3])
              /\ \A i \in MaterialRows(t) :
                    LET kind == KindOf(call.material_mapping, t[i][1])
                        h    == HeaderAbove(t, i)
                        s    == SubtotalBelow(t, i)
                    IN  /\ KindHeaderRows(t) # {} /\ SubtotalRows(t) # {}
                        /\ h < i /\ i < s
                        /\ t[h][1] = KIND_PREFIX \o kind
                        /\ t[s][1] = SUBTOTAL_PREFIX \o kind \o SUBTOTAL_SUFFIX
                        /\ \A j \in (h + 1)..(s - 1) : j \in MaterialRows(t)

\* A detailed table whose entries came in ascending order of amount: the kind
\* of the last entry is shown first, and inside the first kind's block the
\* second material comes before the first.
C17_Witness ==
    /\ DetailedDone
    /\ call.aggregated_data =
           << [key |-> Copper, weight |-> 300, sum |-> 2000],
              [key |-> Brass, weight |-> 250, sum |-> 4000],
              [key |-> Lead, weight |-> 100000, sum |-> 100050] >>
    /\ call.material_mapping # << >>
    /\ call.result[2][1] = KIND_PREFIX \o Heavy
    /\ call.result[6][1] = Brass
    /\ call.result[7][1] = Copper

\* The entry of the aggregated mapping that a material row shows.
EntryOf(aggregated, material) == aggregated[DictIndex(aggregated, material)]

\* C18: the average price of a material row of the detailed table is the
\* amount divided by the weight (to the nearest hundredth shown) when the
\* weight is not zero, and 0 when it is zero; a material of weight zero costs
\* the table no row.
C18_Average ==
    DetailedDone =>
        LET t == call.result IN
        /\ \A i \in MaterialRows(t) :
              LET e   == EntryOf(call.aggregated_data, t[i][1])
                  avg == ShownNumber(t[i][4])
              IN  IF e.weight = 0
                  THEN t[i][4] = <<"0", ".", "0", "0">>
                  ELSE /\ 2 * (avg * e.weight - e.sum * Hundred) <= e.weight
                       /\ 2 * (e.sum * Hundred - avg * e.weight) <= e.weight
        /\ { t[i][1] : i \in MaterialRows(t) }
               = { call.aggregated_data[i].key : i \in AllEntries }
        /\ Len(t) = 2 + Len(call.aggregated_data) + 2 * Cardinality(KindHeaderRows(t))
        /\ t[1] = DetailedHeader
        /\ t[Len(t)][1] = GRAND_TOTAL

\* A material of weight zero next to one of 3 kg for 20.00 (6.67 a kg).
C18_Witness ==
    /\ DetailedDone
    /\ call.aggregated_data =
           << [key |-> Zinc, weight |-> 0, sum |-> 2000],
              [key |-> Lead, weight |-> 300, sum |-> 2000] >>
    /\ \E i, j \in MaterialRows(call.result) :
          /\ call.result[i] = <<Zinc, <<"0", ".", "0", "0">>, <<"2", "0", ".", "0", "0">>,
                                <<"0", ".", "0", "0">> >>
          /\ call.result[j][1] = Lead
          /\ call.result[j][4] = <<"6", ".", "6", "7">>

\* Every one of the three reads of the journal fails.
NoReadSucceeds(env) == \A i \in 1..3 : env.reads[i].status # "ok"

\* The operation blocks of a story: its headings, placeholders and tables.
OpElements(story) ==
    SelectSeq(story, LAMBDA el : el.kind \in {"heading", "no_data", "table"})

\* C15 as claimed: when no read of the journal succeeds during a report's
\* generation, the generation is aborted and the user is told: nothing that is
\* sent is a document (least of all one of three 'no data' placeholders), and
\* a text goes to the chat.
C15_SourceFailureAborts ==
    (Returned("generate_report_from_params") /\ NoReadSucceeds(call.env)) =>
        /\ \A i \in 1..Len(call.result.sent) : call.result.sent[i].kind # "document"
        /\ \E i \in 1..Len(call.result.sent) : call.result.sent[i].kind = "text"

\* What process_journal returns for the i-th operation of a call of
\* generate_pdf_report.
AggregationOf(c, i) ==
    process_journal(op_types[i].code, ReportDates(c.params, c.today).start_date,
                    ReportDates(c.params, c.today).end_date, Get(c.params, "location"),
                    c.env.reads[i])

\* C19: every generated report has exactly three operation blocks, in the
\* order buy, sell, ship, each right after its own heading; a block is the
\* 'no data' placeholder exactly when the aggregation of its operation
\* returned no entry, and a table otherwise, whatever the other blocks are.
C19_ThreeBlocks ==
    (Returned("generate_pdf_report") /\ ~call.result.raised) =>
        LET els   == OpElements(call.result.story)
            plain == SelectSeq(call.result.story, LAMBDA el : el.kind # "spacer")
            n     == Len(plain)
        IN  /\ Len(els) = 6
            /\ SubSeq(plain, n - 5, n) = els
            /\ \A i \in 1..3 :
                  /\ els[2 * i - 1] = [kind |-> "heading", text |-> op_types[i].title]
                  /\ els[2 * i].kind \in {"no_data", "table"}
                  /\ els[2 * i].kind = "no_data" <=> AggregationOf(call, i) = <<>>
                  /\ els[2 * i].kind = "no_data" => els[2 * i].text = op_types[i].title
                  /\ els[2 * i].kind = "table" =>
                        /\ Len(els[2 * i].data) >= 3
                        /\ \A k \in 1..Len(AggregationOf(call, i)) :
                              \E r \in 1..Len(els[2 * i].data) :
                                  \/ els[2 * i].data[r][1] = AggregationOf(call, i)[k].key
                                  \/ els[2 * i].data[r][1]
                                         = KindOf(call.env.material_mapping,
                                                  AggregationOf(call, i)[k].key)

\* The sales cannot be read, the purchases and the shipments can: a table, the
\* placeholder, a table.
C19_Witness ==
    /\ Returned("generate_pdf_report") /\ ~call.result.raised
    /\ call.env.reads[1].status = "ok"
    /\ call.env.reads[2].status = "unreachable"
    /\ OpElements(call.result.story)[2].kind = "table"
    /\ OpElements(call.result.story)[4].kind = "no_data"
    /\ OpElements(call.result.story)[5].text = "Vidvantazheni materialy"
    /\ OpElements(call.result.story)[6].kind = "table"

\* start is day 1 of a month and end the last day of that month of that year.
WholeMonth(start_date, end_date) ==
    \E y \in 2024..2026, m \in 1..12 :
        start_date = Ymd2Ord(y, m, 1) /\ end_date = Ymd2Ord(y, m, DaysInMonth(y, m))

\* C20: the form of the title is a function of (start, end) alone: the
\* single-day form when start = end and the range is no whole calendar month,
\* the month form when start is day 1 and end the last day of the same month
\* and year, the range form otherwise (a range from day 1 of a month to the
\* last day of another, a start after the end); the title carries that day,
\* that month or those two dates.
C20_TitleForm ==
    /\ Returned("doc_title") =>
          LET s == call.start_date
              e == call.end_date
              t == call.result
          IN  /\ t.form \in {"single_day", "month", "range"}
              /\ t.form = "single_day" <=> (s = e /\ ~WholeMonth(s, e))
              /\ t.form = "month" <=> WholeMonth(s, e)
              /\ t.form = "range" <=> (s # e /\ ~WholeMonth(s, e))
              /\ t.form = "single_day" =>
                    Ymd2Ord(t.year, t.month, t.day) = s
              /\ t.form = "month" =>
                    Ymd2Ord(t.year, t.month, 1) = s
              /\ t.form = "range" =>
                    StrpYMD(t.startString) = s /\ StrpYMD(t.endString) = e
    /\ (Returned("generate_pdf_report") /\ ~call.result.raised) =>
          call.result.title.form
              = IF StrpDMY(call.params["startDate"]) # 0 /\ StrpDMY(call.params["endDate"]) # 0
                THEN "range" ELSE "single_day"

\* From day 1 of February to the last day of March: the range form.
C20_Witness ==
    /\ Returned("doc_title")
    /\ call.start_date = Ymd2Ord(2024, 2, 1)
    /\ call.end_date = Ymd2Ord(2024, 3, 31)
    /\ call.result.form = "range"
    /\ call.result.startString = <<"2", "0", "2", "4", "-", "0", "2", "-", "0", "1">>

\* The record the handlers of member m read and write: get_state(m.chat).
RecordOf(us, m) == get_state_or_empty(us, m.chat)

\* The members with a wizard run in progress, other than the one whose update
\* the step dispatched.
OthersAt(upd) ==
    { m \in members : /\ <<m.chat, m.user.id>> # ConvKey(upd)
                      /\ <<m.chat, m.user.id>> \in DOMAIN conversations }

\* C21 as claimed: a step of the wizard taken for one identity leaves the
\* conversation state and the session record of every other identity as they
\* were, in every interleaving, and a report is generated from parameters of
\* the identity it is generated for (its requester is the one who completed
\* the wizard).
C21_Independent ==
    [][ handled'.handler \in ConversationHandlers =>
          /\ \A m \in OthersAt(handled'.upd) :
                /\ StateOf(conversations', <<m.chat, m.user.id>>)
                      = StateOf(conversations, <<m.chat, m.user.id>>)
                /\ RecordOf(user_states', m) = RecordOf(user_states, m)
          /\ handled'.gen # <<>> =>
                Field(handled'.gen[1].params, "generated_by")
                    = <<DisplayName(handled'.upd.user)>>
      ]_vars

\* C22 as claimed: the location handler of either variant stores the empty
\* string for the general option and the name for a configured location, and
\* returns CHOOSING_VIEW.
C22_LocationStored ==
    (call.fn = "choose_location_callback" /\ call.done) =>
        /\ ~call.result.raised
        /\ call.result.ret = CHOOSING_VIEW
        /\ RecordOf(call.result.us, [chat |-> call.chat_id])["location"]
              = IF call.location = GeneralButton(call.variant) THEN "" ELSE call.location

\* The shape of input a wizard state waits for: a press of a button of its own
\* category in the three choice states, a free text that is no command in
\* ENTERING_CUSTOM_DATES.
Expected(state, upd) ==
    \/ state = CHOOSING_LOCATION /\ upd.kind = "callback" /\ upd.category = "choose_location"
    \/ state = CHOOSING_VIEW /\ upd.kind = "callback" /\ upd.category = "choose_view"
    \/ state = CHOOSING_PERIOD /\ upd.kind = "callback" /\ upd.category = "choose_period"
    \/ state = ENTERING_CUSTOM_DATES /\ upd.kind = "message" /\ Head(upd.text) # "/"

ChoiceStates == {CHOOSING_LOCATION, CHOOSING_VIEW, CHOOSING_PERIOD}

\* The updates of the members whose shape the state of their key does not
\* expect: a press of another category or a free text in a choice state, a
\* press or a command in ENTERING_CUSTOM_DATES, /report during a run.
Mismatched ==
    { upd \in Updates :
        /\ Member(upd) \in members
        /\ ConvKey(upd) \in DOMAIN conversations
        /\ ~Expected(conversations[ConvKey(upd)], upd)
        /\ \/ conversations[ConvKey(upd)] \in ChoiceStates /\ upd.kind = "callback"
           \/ conversations[ConvKey(upd)] \in ChoiceStates /\ upd.kind = "message"
                                                          /\ Head(upd.text) # "/"
           \/ conversations[ConvKey(upd)] = ENTERING_CUSTOM_DATES
           \/ upd.kind = "message" /\ upd.text = <<"/">> \o CMD_REPORT }

IsCancel(upd) == upd.kind = "message" /\ upd.text = <<"/">> \o CMD_CANCEL

\* A step that ran no handler of the conversation leaves the conversation
\* states and the records as they were and generates no report.
NothingConsumed ==
    handled'.handler \in {"none", "start_command"} =>
        /\ conversations' = conversations
        /\ user_states' = user_states
        /\ handled'.gen = <<>>

\* C23 as claimed: no update whose shape the active state does not expect is
\* given to a handler of the conversation, a command in ENTERING_CUSTOM_DATES
\* included; state and record stay as they were and no report is generated.
C23_NotConsumed ==
    [][ /\ \A upd \in Mismatched : Dispatch(conversations, upd) \in {"none", "start_command"}
        /\ NothingConsumed
      ]_vars

\* C23, amended: the same for every such update but the command /cancel,
\* which the fallback of the conversation accepts in every state (it ends the
\* conversation, leaves the record and generates no report).
C23_MismatchIgnored ==
    [][ /\ \A upd \in Mismatched :
              IF IsCancel(upd) THEN Dispatch(conversations, upd) = "cancel"
              ELSE Dispatch(conversations, upd) \in {"none", "start_command"}
        /\ handled'.handler \in ConversationHandlers \ {"report_command", "cancel"} =>
              Expected(conversations[ConvKey(handled'.upd)], handled'.upd)
        /\ handled'.handler = "report_command" =>
              ConvKey(handled'.upd) \notin DOMAIN conversations
        /\ NothingConsumed
      ]_vars

\* A late 'choose_location:' press in CHOOSING_PERIOD, /report during that
\* run and a free text there, none of them handled, after a step that ran no
\* handler and with the record of the run as the view step left it.
C23_Witness ==
    /\ handled.handler = "none"
    /\ \E m \in members :
          /\ StateOf(conversations, <<m.chat, m.user.id>>) = CHOOSING_PERIOD
          /\ RecordOf(user_states, m)["stage"] = "choose_period"
          /\ \A upd \in { [kind |-> "callback", chat |-> m.chat, user |-> m.user,
                             category |-> "choose_location", value |-> "IRPIN"],
                            [kind |-> "message", chat |-> m.chat, user |-> m.user,
                             text |-> <<"/">> \o CMD_REPORT],
                            [kind |-> "message", chat |-> m.chat, user |-> m.user,
                             text |-> T_one] } :
                upd \in Mismatched /\ Dispatch(conversations, upd) = "none"

\* The step completes the wizard: a named period pressed in CHOOSING_PERIOD,
\* or a text of one or two tokens accepted in ENTERING_CUSTOM_DATES.
Completes(h, upd) ==
    \/ h = "choose_period_callback" /\ upd.value # PERIOD_CUSTOM
    \/ h = "custom_dates" /\ TokenCount(upd.text) \in {1, 2}

\* C24: a step that completes the wizard calls generate_report_from_params
\* once, with one attempt to deliver; a failure of the generation or of the
\* delivery is raised and nothing is tried again or sent in that step; a
\* delivered report ends the run, so no second document follows in it; every
\* other step (cancel, a step of a run in progress, an update not handled)
\* generates and delivers nothing.
C24_OnceNoRetry ==
    [][ /\ Completes(handled'.handler, handled'.upd) <=> Len(handled'.gen) = 1
        /\ ~Completes(handled'.handler, handled'.upd) => handled'.gen = <<>>
        /\ \A i \in 1..Len(handled'.gen) :
              /\ handled'.gen[i].outcome = "delivered" =>
                    /\ ~handled'.raised
                    /\ ConvKey(handled'.upd) \notin DOMAIN conversations'
              /\ handled'.gen[i].outcome # "delivered" =>
                    /\ handled'.raised
                    /\ \A j \in 1..Len(handled'.gen) : handled'.gen[j].outcome # "delivered"
      ]_vars

\* A completion whose delivery failed: one call, raised, nothing delivered.
C24_Witness ==
    /\ handled.handler = "custom_dates"
    /\ Len(handled.gen) = 1
    /\ handled.gen[1].outcome = "send_raised"
    /\ handled.raised

\* A date of the params that is no dd.mm.yyyy date.
Unparsable(params) ==
    StrpDMY(params["startDate"]) = 0 \/ StrpDMY(params["endDate"]) = 0

\* The block a report has for its i-th operation when the journal is
\* aggregated over the single day today.
TodayBlock(c, i) ==
    LET aggregated_data == process_journal(op_types[i].code, c.today, c.today,
                                           Get(c.params, "location"), c.env.reads[i])
    IN  IF aggregated_data = <<>>
        THEN [kind |-> "no_data", text |-> op_types[i].title]
        ELSE TableElement(IF c.params["viewMode"] = "STYSLYI"
                          THEN generate_brief_table_data(aggregated_data,
                                                         c.env.material_mapping)
                          ELSE generate_detailed_table_data(aggregated_data,
                                                            c.env.material_mapping))

\* C25: when the stored startDate or endDate is no dd.mm.yyyy date (one of
\* them or both), generate_pdf_report does not raise on it: the title is that
\* of the single day today, each of the three blocks is the aggregation of its
\* operation over today alone, and the document is delivered.
C25_DateFallback ==
    (/\ call.fn \in {"generate_pdf_report", "generate_report_from_params"} /\ call.done
     /\ call.env.failure = "none" /\ Unparsable(call.params)) =>
        LET pdf == IF call.fn = "generate_pdf_report" THEN call.result
                   ELSE call.result.sent[1].pdf
            day == Ord2Ymd(call.today)
        IN  /\ ~call.result.raised
            /\ call.fn = "generate_report_from_params" =>
                  /\ Len(call.result.sent) = 1
                  /\ call.result.sent[1].kind = "document"
            /\ pdf.title.form = "single_day"
            /\ pdf.title.day = day.day /\ pdf.title.month = day.month
            /\ pdf.title.year = day.year
            /\ \A i \in 1..3 : OpElements(pdf.story)[2 * i] = TodayBlock(call, i)

\* A report whose endDate is empty and whose startDate is 01.03.2025, with the
\* journal read in full: the title of 2 March 2025, no purchase of that day,
\* the shipment of that day in a table, delivered.
C25_Witness ==
    /\ Returned("generate_report_from_params") /\ call.env.failure = "none"
    /\ call.params["startDate"] = DateText(2025, 3, 1) /\ call.params["endDate"] = <<>>
    /\ Len(call.result.sent) = 1
    /\ call.result.sent[1].pdf.title.form = "single_day"
    /\ call.result.sent[1].pdf.title.day = 2
    /\ OpElements(call.result.sent[1].pdf.story)[2].kind = "no_data"
    /\ OpElements(call.result.sent[1].pdf.story)[6].kind = "table"
    /\ AggregationOf(call, 3) # <<>>

\* The stage the record of a chat has; "none" when the chat has no record.
StageOf(us, chat_id) ==
    IF HasState(us, chat_id) THEN us[Str(chat_id)]["stage"] ELSE "none"

\* C26 as claimed: after every step of a handler of the conversation, the
\* stage of the record agrees with the conversation state of the key of that
\* step: 'choose_location' iff CHOOSING_LOCATION, 'choose_view' iff
\* CHOOSING_VIEW, 'choose_period' iff CHOOSING_PERIOD, 'enter_custom_dates'
\* iff ENTERING_CUSTOM_DATES, and 'completed' only when the conversation has
\* ended, a step whose report generation or delivery raises included.
C26_StageAgrees ==
    [][ handled'.handler \in ConversationHandlers =>
          LET stage == StageOf(user_states', handled'.upd.chat)
              state == StateOf(conversations', ConvKey(handled'.upd))
          IN  /\ stage = "choose_location" <=> state = CHOOSING_LOCATION
              /\ stage = "choose_view" <=> state = CHOOSING_VIEW
              /\ stage = "choose_period" <=> state = CHOOSING_PERIOD
              /\ stage = "enter_custom_dates" <=> state = ENTERING_CUSTOM_DATES
              /\ stage = "completed" => state = END
      ]_vars

\* C27 as claimed: whenever report generation is triggered, the record passed
\* to it has location, viewMode, startDate, endDate and the requester name,
\* written in the run of the user who triggered it: that user took the
\* location and the view step in this run and is the requester named, in every
\* interleaving, two users running the wizard in one chat included.
C27_OwnParameters ==
    [][ handled'.gen # <<>> =>
          LET params == handled'.gen[1].params IN
          /\ {"location", "viewMode", "startDate", "endDate", "generated_by"}
                \subseteq DOMAIN params
          /\ {"location", "view"} \subseteq handled'.received
          /\ params["generated_by"] = DisplayName(handled'.upd.user)
      ]_vars

====
